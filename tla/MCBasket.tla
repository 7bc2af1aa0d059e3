------------------------------ MODULE MCBasket ------------------------------
(***************************************************************************)
(* A responder with one allowed directory, one mapped file outside it, a   *)
(* link from inside it to a private file, and two servers.  Request 1 is   *)
(* cancelled by request 2, and request 3 reuses its id.                    *)
(***************************************************************************)
EXTENDS Basket

Web(name) == Uri("http", name, <<>>)
Text(name) == Uri("text", name, <<>>)
File(path) == Uri("file", "", path)

Doc(hash, size, mime) == [hash |-> hash, size |-> size, mime |-> mime]

MCTasks == 1..6

Sent(sig, wire) == [source |-> "client", sig |-> sig, wire |-> wire]
ByCli(args) == Sent("valid", EncodeRequest(CliRequest(args, "client")))

\* The last three are not made by dtnbasket-cli.
MCBundle == <<
  ByCli([req_id |-> "a", default_lifetime |-> 3600,
         file |-> <<[uri |-> Web("site"), max_size |-> 2, accepted_formats |-> {"text/plain"}],
                    [op |-> "SEARCH", uri |-> Text("query"), max_size |-> 2]>>,
         gets |-> <<>>, searches |-> <<>>, lists |-> <<>>]),
  ByCli([req_id |-> "b", default_lifetime |-> 60,
         file |-> <<[op |-> "cancel", uri |-> Text("a")]>>,
         gets |-> <<Text("urn")>>, searches |-> <<>>, lists |-> <<>>]),
  ByCli([req_id |-> "a", default_lifetime |-> 60, reply_to |-> "other",
         file |-> <<[op |-> "CHECK", uri |-> File(<<"pub", "link">>), lifetime_override |-> 5]>>,
         gets |-> <<>>, searches |-> <<>>, lists |-> <<Text("query")>>]),
  Sent("valid",
    [version |-> 1, req_id |-> "c", reply_to |-> "malformed", items |->
       <<[op |-> 9, uri |-> Text("")], [op |-> 1, uri |-> File(<<"pub", "d", "b">>)], [op |-> 0, uri |-> File(<<"pub", "d">>)],
         [op |-> 2, uri |-> Text("wide"), have_hashes |-> {<<1>>}]>>]),
  Sent("unsigned", [version |-> 1, req_id |-> "d"]),
  Sent("valid", [version |-> 1]) >>

\* The site answers, fails, sends to the other site or to a place not allowed.
MCAnswers(uri) ==
  LET body(doc) == [code |-> 2, doc |-> doc, to |-> uri]
      redirect(to) == [code |-> 3, doc |-> Doc(<<7>>, 0, ""), to |-> to]
      fail == [code |-> 0, doc |-> Doc(<<7>>, 0, ""), to |-> uri]
  IN IF uri.name = "site"
     THEN {body(Doc(<<5, 1>>, 1, "text/plain")), redirect(Uri("gemini", "mirror", <<>>)),
           redirect(Web("lan")), redirect(File(<<"pub", "a">>))}
     ELSE {body(Doc(<<6, 1>>, 1, "")), redirect(Web("site")), fail}

MCResolve ==
  ("site" :> {<<44, 1, 2, 3>>})
  @@ ("mirror" :> {<<44, 1, 2, 4>>, <<8193, 0, 0, 0, 0, 0, 0, 7>>})
  @@ ("lan" :> {<<44, 1, 2, 5>>, <<0, 0, 0, 0, 0, 65535, 49320, 1>>})

MCFiles ==
  (<<"pub", "a">> :> Doc(<<1, 1>>, 1, "text/plain"))
  @@ (<<"pub", "d", "b">> :> Doc(<<2, 1>>, 2, "text/plain"))
  @@ (<<"pub", "d", "e", "deep">> :> Doc(<<3, 1>>, 1, "text/plain"))
  @@ (<<"pub", ".git", "c">> :> Doc(<<3, 2>>, 1, "text/plain"))
  @@ (<<"etc", "private">> :> Doc(<<3, 3>>, 1, "text/plain"))
  @@ (<<"doc", "manual">> :> Doc(<<4, 1>>, 3, "text/plain"))

MCLinks == (<<"pub", "link">> :> <<"etc", "private">>)
MCMappings == ("urn" :> <<"doc", "manual">>)
MCDirs == {<<"pub">>}
MCVolatile == {<<"pub", "d", "b">>}
MCMatches ==
  {"query", "wide"} \X {"b", "c", "deep", "urn", "link", "private"} \cup {<<"wide", "a">>}
=============================================================================
