------------------------------- MODULE Basket -------------------------------
(***************************************************************************)
(* dtnbasket: the responder of the DTN Basket protocol.  A request bundle  *)
(* lists items (GET, CHECK, SEARCH, CANCEL, LIST); each request runs in a  *)
(* task of its own, resolves its items in order, and sends one control     *)
(* bundle with the item responses and then one bundle per raw resource.    *)
(* A CANCEL item of one request stops the task of another through a watch  *)
(* channel whose sender is kept in active_tasks under the request's id.    *)
(*                                                                         *)
(* The step boundaries are the awaits of the task: a hop of a fetch, the   *)
(* blocking search, each file a search reads, each bundle sent.            *)
(*                                                                         *)
(* A uri is a record [scheme, name, path]: the scheme "text" is any text   *)
(* with none of the schemes the code knows (a mapped URN, a search query,  *)
(* the id a CANCEL names).  A path is a sequence of names, a hash a        *)
(* sequence of bytes.                                                      *)
(***************************************************************************)
EXTENDS Integers, FiniteSets, Sequences, SequencesExt

CONSTANTS
  Tasks,          \* the request bundles that reach the service
  Bundle,         \* Bundle[t]: [source, sig, wire] of the request bundle
  Policy,         \* --verify-policy: "strict", "warn" or "ignore"
  Answers(_),     \* the [code, doc, to] a server may answer to a fetch of a uri (external)
  Resolve,        \* Resolve[h]: addresses host h stands for (external)
  AllowedDirs,    \* allowed_dirs, made canonical by load_config
  Mappings,       \* mappings: name -> path
  Links,          \* symbolic links: path -> the path they lead to
  InitialFiles,   \* path -> [hash, size, mime] of the files at the start
  Volatile,       \* the paths that may disappear
  Matches,        \* pairs <<query, name>>: the query's regex finds the name
  Hidden,         \* directory names the search does not enter
  MaxSearchDepth, InlineLimit, MaxRedirects,   \* 3, 50 and 5 in the code
  DefaultSize, DefaultLifetime,                \* 50 MiB and 3600 s in the code
  MaxDelivered    \* bound: request bundles delivered

ASSUME BasketAssumption ==
  /\ Policy \in {"strict", "warn", "ignore"}
  /\ {MaxSearchDepth, InlineLimit, MaxRedirects, DefaultSize, DefaultLifetime,
      MaxDelivered} \subseteq Nat

\* A path is that of a file or of a link.
ASSUME LinksAssumption == DOMAIN Links \cap DOMAIN InitialFiles = {}

VARIABLES
  task,     \* task[t]: the state of process_request for bundle t
  active,   \* active_tasks: request id -> the task that holds the receiver
  fs,       \* the files that exist: path -> [hash, size, mime]
  alive     \* the process runs

vars == <<task, active, fs, alive>>

-----------------------------------------------------------------------------
(* The CBOR forms (basket.rs).                                             *)

coap_status ==
  [CHANGED |-> 66, CONTENT |-> 69, FORBIDDEN |-> 131, NOT_FOUND |-> 132,
   NOT_ACCEPTABLE |-> 134, REQUEST_ENTITY_TOO_LARGE |-> 141, INTERNAL_SERVER_ERROR |-> 160]

Uri(scheme, name, path) == [scheme |-> scheme, name |-> name, path |-> path]

NoMetadata == [hash |-> <<>>, size |-> 0, mime |-> "", uri |-> Uri("text", "", <<>>)]

\* A CBOR map is a function on the keys present; an absent key is a default.
Field(wire, key, default) == IF key \in DOMAIN wire THEN wire[key] ELSE default

DecodeItem(wire) ==
  [op        |-> Field(wire, "op", 0),
   uri       |-> Field(wire, "uri", Uri("text", "", <<>>)),
   max_size  |-> Field(wire, "max_size", DefaultSize),
   formats   |-> Field(wire, "accepted_formats", {}),
   have      |-> Field(wire, "have_hashes", {}),
   lifetime  |-> Field(wire, "lifetime_override", -1)]

\* A request without a version or an id does not decode.
Decodes(wire) == {"version", "req_id"} \subseteq DOMAIN wire

DecodeRequest(wire) ==
  [req_id   |-> wire.req_id,
   reply_to |-> Field(wire, "reply_to", "none"),
   lifetime |-> Field(wire, "default_lifetime", DefaultLifetime),
   items    |-> [i \in DOMAIN Field(wire, "items", <<>>) |-> DecodeItem(wire.items[i])]]

\* The items of a request are a CBOR array.
ASSUME ItemsAssumption ==
  \A t \in Tasks :
    LET items == Field(Bundle[t].wire, "items", <<>>) IN
    Len(items) \in Nat /\ DOMAIN items = 1 .. Len(items)

\* Optional fields are emitted when they are present.
EncodeItem(item) ==
  [key \in {"op", "uri"} \cup (DOMAIN item \cap
              {"max_size", "accepted_formats", "have_hashes", "if_modified_since", "lifetime_override"})
     |-> item[key]]

EncodeRequest(req) == [req EXCEPT !.items = [i \in DOMAIN req.items |-> EncodeItem(req.items[i])]]

EncodeItemResponse(resp) ==
  [key \in {"item_idx", "status"} \cup {k \in {"metadata"} : resp.metadata # NoMetadata}
     |-> resp[key]]

EncodeResponse(req_id, resps) ==
  [version |-> 1, req_id |-> req_id,
   items |-> [i \in DOMAIN resps |-> EncodeItemResponse(resps[i])]]

DecodeItemResponse(wire) ==
  [item_idx |-> Field(wire, "item_idx", 0), status |-> Field(wire, "status", 0),
   metadata |-> Field(wire, "metadata", NoMetadata)]

DecodeResponse(wire) ==
  [req_id |-> wire.req_id, items |-> [i \in DOMAIN wire.items |-> DecodeItemResponse(wire.items[i])]]

\* dtnbasket-cli: the items of the request file, whose op is a name (GET when
\* it is none of the five, in upper or in lower case), then --get, --search
\* and --list.
OpCode(name) ==
  CASE name \in {"CHECK", "check"} -> 1 [] name \in {"SEARCH", "search"} -> 2
    [] name \in {"CANCEL", "cancel"} -> 3 [] name \in {"LIST", "list"} -> 4
    [] OTHER -> 0

Inline(op, uris) == [i \in DOMAIN uris |-> [op |-> op, uri |-> uris[i]]]

FileItem(item) == [key \in DOMAIN item \cup {"op"} |->
                     IF key = "op" THEN OpCode(Field(item, "op", "")) ELSE item[key]]

\* Without --reply-to the answers are asked for at the sender itself.
CliRequest(args, source) ==
  [version |-> 1, req_id |-> args.req_id, reply_to |-> Field(args, "reply_to", source),
   default_lifetime |-> args.default_lifetime,
   items |-> [i \in DOMAIN args.file |-> FileItem(args.file[i])]
               \o Inline(0, args.gets) \o Inline(2, args.searches) \o Inline(4, args.lists)]

NoRequest == [req_id |-> "", reply_to |-> "none", lifetime |-> DefaultLifetime, items |-> <<>>]

Request(t) == task[t].req
Items(t) == task[t].req.items
Item(t) == Items(t)[task[t].idx]

-----------------------------------------------------------------------------
(* What may be fetched, and from where.                                    *)

\* V4 addresses are four octets, V6 addresses eight segments.
is_safe_v4(o) ==
  /\ o[1] \notin {0, 10, 127}
  /\ ~(o[1] = 100 /\ o[2] \div 64 = 1)
  /\ ~(o[1] = 172 /\ o[2] \div 16 = 1)
  /\ ~(o[1] = 192 /\ o[2] = 168)
  /\ ~(o[1] = 169 /\ o[2] = 254)
  /\ o # <<255, 255, 255, 255>>

is_safe_ip(ip) ==
  IF Len(ip) = 4 THEN is_safe_v4(ip)
  ELSE IF SubSeq(ip, 1, 6) = <<0, 0, 0, 0, 0, 65535>>
  THEN is_safe_v4(<<ip[7] \div 256, ip[7] % 256, ip[8] \div 256, ip[8] % 256>>)
  ELSE /\ ip \notin {<<0, 0, 0, 0, 0, 0, 0, 0>>, <<0, 0, 0, 0, 0, 0, 0, 1>>}
       /\ ip[1] \div 64 # 1018     \* fe80::/10
       /\ ip[1] \div 512 # 126     \* fc00::/7

is_safe_host(host) ==
  /\ host # "localhost"
  /\ Resolve[host] # {}
  /\ \A ip \in Resolve[host] : is_safe_ip(ip)

\* canonicalize follows a link; it fails when nothing is there.
Canonical(path) == IF path \in DOMAIN Links THEN Links[path] ELSE path

\* The directories: those files were stored in.
Directories == UNION {{SubSeq(p, 1, k) : k \in 1..Len(p) - 1} : p \in DOMAIN InitialFiles}

\* Mutant: the path is compared as it is written.
CheckFilePathAsWritten(path) ==
  /\ Canonical(path) \in DOMAIN fs \cup Directories
  /\ \E dir \in AllowedDirs : IsPrefix(dir, path)

check_file_path(path) ==
  /\ Canonical(path) \in DOMAIN fs \cup Directories
  /\ \E dir \in AllowedDirs : IsPrefix(dir, Canonical(path))

\* A listed directory is entered to MaxSearchDepth; its links are not followed.
InSearch(path) ==
  \E dir \in AllowedDirs :
    /\ IsStrictPrefix(dir, path)
    /\ Len(path) - Len(dir) - 1 <= MaxSearchDepth
    /\ \A i \in Len(dir) + 1..Len(path) - 1 : path[i] \notin Hidden

perform_search(query) ==
  {[uri |-> Uri("text", name, <<>>), path |-> Mappings[name]] :
     name \in {n \in DOMAIN Mappings :
                 <<query, n>> \in Matches \/ <<query, Last(Mappings[n])>> \in Matches}}
  \cup
  {[uri |-> Uri("file", "", path), path |-> path] :
     path \in {p \in DOMAIN fs : InSearch(p) /\ <<query, Last(p)>> \in Matches}}

-----------------------------------------------------------------------------
Idle == [pc |-> "new", req |-> NoRequest, cancel |-> "open", idx |-> 0, uri |-> Uri("text", "", <<>>), hops |-> 0,
         left |-> {}, resps |-> <<>>, raws |-> <<>>, out |-> <<>>, n |-> 0]

Init ==
  /\ task = [t \in Tasks |-> Idle]
  /\ active = <<>>
  /\ fs = InitialFiles
  /\ alive = TRUE

At(t, pc) == alive /\ task[t].pc = pc

Without(f, key) == [k \in DOMAIN f \ {key} |-> f[k]]
With(f, key, value) == [k \in DOMAIN f \cup {key} |-> IF k = key THEN value ELSE f[k]]

Response(t, status, metadata) ==
  [item_idx |-> task[t].idx - 1, status |-> status, metadata |-> metadata]

Metadata(doc, uri) == [hash |-> doc.hash, size |-> doc.size, mime |-> doc.mime, uri |-> uri]

Lifetime(t) == IF Item(t).lifetime # -1 THEN Item(t).lifetime ELSE Request(t).lifetime

Raw(t, doc) == [hash |-> doc.hash, lifetime |-> Lifetime(t)]

\* The current item is answered: the task goes back to the head of its loop.
Answer(t, resps, raws) ==
  task' = [task EXCEPT ![t].pc = "items", ![t].left = {}, ![t].hops = 0,
                       ![t].uri = Idle.uri,
                       ![t].resps = @ \o resps, ![t].raws = @ \o raws]

AnswerStatus(t, status) == Answer(t, <<Response(t, status, NoMetadata)>>, <<>>)

-----------------------------------------------------------------------------
(* on_deliver and the start of process_request.                            *)

Refused(t) ==
  /\ Policy = "strict"
  /\ Bundle[t].sig \in {"invalid", "unsigned"}

on_deliver(t) ==
  /\ At(t, "new")
  /\ Cardinality({u \in Tasks : task[u].pc # "new"}) < MaxDelivered
  /\ task' = [task EXCEPT ![t].pc = IF Refused(t) THEN "done" ELSE "spawned"]
  /\ UNCHANGED <<active, fs, alive>>

\* Taking a sender out of the map drops it: the channel of its task closes.
Dropped(id) ==
  [u \in Tasks |-> IF id \in DOMAIN active /\ active[id] = u
                   THEN [task[u] EXCEPT !.cancel = "closed"] ELSE task[u]]

\* insert drops the sender an older request with the same id left there.
Registered(t, req) == [Dropped(req.req_id) EXCEPT ![t].pc = "items", ![t].req = req]

StartRequest(t) ==
  /\ At(t, "spawned")
  /\ IF Decodes(Bundle[t].wire)
     THEN LET req == DecodeRequest(Bundle[t].wire) IN
          /\ task' = Registered(t, req)
          /\ active' = With(active, req.req_id, t)
     ELSE /\ task' = [task EXCEPT ![t].pc = "done"]
          /\ UNCHANGED active
  /\ UNCHANGED <<fs, alive>>

-----------------------------------------------------------------------------
(* The loop over the items.                                                *)

\* Mutant: the loop also stops when the sender is gone.
CancelledOrClosed(t) == task[t].cancel # "open"

Cancelled(t) == task[t].cancel = "cancelled"

MoreItems(t) == ~Cancelled(t) /\ task[t].idx < Len(Items(t))

\* An operation is started on the next item; op 3 and unknown ones end there.
StartItem(t) ==
  LET item == Items(t)[task[t].idx + 1]
      next == [task EXCEPT ![t].idx = @ + 1]
      answered(status) ==
        [next EXCEPT ![t].resps =
           Append(@, [item_idx |-> task[t].idx, status |-> status, metadata |-> NoMetadata])]
  IN /\ At(t, "items") /\ MoreItems(t)
     /\ \/ /\ item.op \in {0, 1}
           /\ task' = [next EXCEPT ![t].pc = "fetch", ![t].uri = item.uri]
           /\ UNCHANGED active
        \/ /\ item.op \in {2, 4}
           /\ task' = [next EXCEPT ![t].pc = "search"]
           /\ UNCHANGED active
        \/ /\ item.op = 3 /\ item.uri.name \in DOMAIN active
           /\ task' = [answered(coap_status.CHANGED) EXCEPT
                         ![active[item.uri.name]].cancel = "cancelled"]
           /\ active' = Without(active, item.uri.name)
        \/ /\ item.op = 3 /\ item.uri.name \notin DOMAIN active
           /\ task' = answered(coap_status.NOT_FOUND)
           /\ UNCHANGED active
        \/ /\ item.op > 4
           /\ task' = answered(coap_status.NOT_FOUND)
           /\ UNCHANGED active
     /\ UNCHANGED <<fs, alive>>

\* The answers go to reply_to when that parses as an EID.
ReplyTo(t) == IF Request(t).reply_to \in {"none", "malformed"} THEN Bundle[t].source
              ELSE Request(t).reply_to

\* Mutant: the id is not freed.
FinishItemsKept(t) ==
  /\ At(t, "items") /\ ~MoreItems(t)
  /\ task' = [task EXCEPT ![t].pc = "send",
                          ![t].out = <<[to |-> ReplyTo(t),
                                        wire |-> EncodeResponse(Request(t).req_id, task[t].resps)]>>]
  /\ UNCHANGED <<active, fs, alive>>

\* Past the last item, or cancelled: the id is freed, whoever registered it
\* last, and the bundles are built.
FinishItems(t) ==
  /\ At(t, "items") /\ ~MoreItems(t)
  /\ active' = Without(active, Request(t).req_id)
  /\ task' = [Dropped(Request(t).req_id) EXCEPT
                ![t].pc = "send",
                ![t].out = <<[to |-> ReplyTo(t),
                              wire |-> EncodeResponse(Request(t).req_id, task[t].resps)]>>]
  /\ UNCHANGED <<fs, alive>>

-----------------------------------------------------------------------------
(* GET and CHECK: fetch_resource, raced against the cancel channel.        *)

Acceptable(item, mime) == item.formats = {} \/ {"*/*", mime} \cap item.formats # {}

\* Mutant: a CHECK sends the content as well.
FetchedAlwaysRaw(t, doc) ==
  IF doc.size > Item(t).max_size THEN AnswerStatus(t, coap_status.REQUEST_ENTITY_TOO_LARGE)
  ELSE IF ~Acceptable(Item(t), doc.mime) THEN AnswerStatus(t, coap_status.NOT_ACCEPTABLE)
  ELSE Answer(t, <<Response(t, coap_status.CONTENT, Metadata(doc, Item(t).uri))>>, <<Raw(t, doc)>>)

\* fetch_and_hash_item after a body was read.
Fetched(t, doc) ==
  IF doc.size > Item(t).max_size THEN AnswerStatus(t, coap_status.REQUEST_ENTITY_TOO_LARGE)
  ELSE IF ~Acceptable(Item(t), doc.mime) THEN AnswerStatus(t, coap_status.NOT_ACCEPTABLE)
  ELSE Answer(t, <<Response(t, coap_status.CONTENT, Metadata(doc, Item(t).uri))>>,
              IF Item(t).op = 0 THEN <<Raw(t, doc)>> ELSE <<>>)

IsWeb(uri) == uri.scheme \in {"http", "gemini"}

Redirect(t, to) ==
  IF task[t].hops >= MaxRedirects THEN AnswerStatus(t, coap_status.NOT_FOUND)
  ELSE IF ~IsWeb(to) \/ ~is_safe_host(to.name) THEN AnswerStatus(t, coap_status.FORBIDDEN)
  ELSE task' = [task EXCEPT ![t].uri = to, ![t].hops = @ + 1]

\* A body without a type gets the default one of its protocol.
Body(uri, doc) ==
  IF doc.mime # "" THEN doc
  ELSE [doc EXCEPT !.mime = IF uri.scheme = "gemini" THEN "text/gemini" ELSE "application/octet-stream"]

\* The code is the first digit of the status; 0 stands for no valid answer.
FetchWeb(t) ==
  /\ At(t, "fetch") /\ IsWeb(task[t].uri)
  /\ IF ~is_safe_host(task[t].uri.name) THEN AnswerStatus(t, coap_status.FORBIDDEN)
     ELSE \E a \in Answers(task[t].uri) :
            \/ a.code = 2 /\ Fetched(t, Body(task[t].uri, a.doc))
            \/ a.code = 3 /\ Redirect(t, a.to)
            \/ a.code \notin {2, 3} /\ AnswerStatus(t, coap_status.NOT_FOUND)
  /\ UNCHANGED <<active, fs, alive>>

\* A file:// uri must lie in an allowed directory, a mapped path need not;
\* what is no file cannot be read.
FetchLocal(t) ==
  /\ At(t, "fetch") /\ ~IsWeb(task[t].uri)
  /\ LET uri == task[t].uri
         read(path) == IF path \in DOMAIN fs THEN Fetched(t, fs[path])
                       ELSE AnswerStatus(t, coap_status.NOT_FOUND)
     IN  IF uri.scheme = "file"
         THEN IF check_file_path(uri.path) THEN read(Canonical(uri.path))
              ELSE AnswerStatus(t, coap_status.FORBIDDEN)
         ELSE IF uri.name \in DOMAIN Mappings THEN read(Canonical(Mappings[uri.name]))
              ELSE AnswerStatus(t, coap_status.NOT_FOUND)
  /\ UNCHANGED <<active, fs, alive>>

\* The file disappears after its path was checked and before it is read.
FetchVanishes(t) ==
  LET path == Canonical(task[t].uri.path) IN
  /\ At(t, "fetch") /\ task[t].uri.scheme = "file" /\ check_file_path(task[t].uri.path)
  /\ path \in Volatile \cap DOMAIN fs /\ fs' = Without(fs, path)
  /\ AnswerStatus(t, coap_status.NOT_FOUND)
  /\ UNCHANGED <<active, alive>>

\* Mutant: only the closing of the channel interrupts a fetch.
FetchCancelledOnClose(t) ==
  /\ At(t, "fetch") /\ task[t].cancel = "closed"
  /\ AnswerStatus(t, coap_status.INTERNAL_SERVER_ERROR)
  /\ UNCHANGED <<active, fs, alive>>

\* cancel_rx.changed() returns when a value was sent and when the sender is gone.
FetchCancelled(t) ==
  /\ At(t, "fetch") /\ task[t].cancel # "open"
  /\ AnswerStatus(t, coap_status.INTERNAL_SERVER_ERROR)
  /\ UNCHANGED <<active, fs, alive>>

-----------------------------------------------------------------------------
(* SEARCH and LIST.                                                        *)

Search(t) ==
  LET results == perform_search(Item(t).uri.name) IN
  /\ At(t, "search")
  /\ IF results = {} THEN AnswerStatus(t, coap_status.NOT_FOUND)
     ELSE task' = [task EXCEPT
            ![t].left = results,
            ![t].pc = IF Item(t).op = 4 \/ Cardinality(results) > InlineLimit
                      THEN "index" ELSE "inline"]
  /\ UNCHANGED <<active, fs, alive>>

\* The index lists every result, with an empty hash for one it cannot read.
IndexDocument(results) ==
  [hash |-> <<0, Cardinality(results), Cardinality({r \in results : Canonical(r.path) \in DOMAIN fs})>>,
   size |-> Cardinality(results), mime |-> "text/markdown"]

CompileIndex(t) ==
  /\ At(t, "index")
  /\ LET doc == IndexDocument(task[t].left) IN
     Answer(t, <<Response(t, coap_status.CONTENT, Metadata(doc, Item(t).uri))>>, <<Raw(t, doc)>>)
  /\ UNCHANGED <<active, fs, alive>>

AlreadyOwned(item, hash) == \E h \in item.have : IsPrefix(h, hash)

\* One result of the search: unreadable ones are passed over in silence.
SearchOne(t, result) ==
  LET path == Canonical(result.path)
      one == [task EXCEPT ![t].left = @ \ {result}]
  IN /\ At(t, "inline") /\ ~Cancelled(t)
     /\ IF path \notin DOMAIN fs THEN task' = one
        ELSE IF fs[path].size > Item(t).max_size
        THEN task' = [one EXCEPT ![t].resps =
               Append(@, Response(t, coap_status.REQUEST_ENTITY_TOO_LARGE, NoMetadata))]
        ELSE task' = [one EXCEPT
               ![t].resps = Append(@, Response(t, coap_status.CONTENT, Metadata(fs[path], result.uri))),
               ![t].raws = IF AlreadyOwned(Item(t), fs[path].hash) THEN @
                           ELSE Append(@, Raw(t, fs[path]))]
     /\ UNCHANGED <<active, fs, alive>>

SearchEnds(t) ==
  /\ At(t, "inline")
  /\ task[t].left = {} \/ Cancelled(t)
  /\ Answer(t, <<>>, <<>>)
  /\ UNCHANGED <<active, fs, alive>>

-----------------------------------------------------------------------------
(* Sending, and what happens around the tasks.                             *)

\* process_request returns: its locals are dropped (the request and whether it
\* was cancelled are kept as history).
Ended(t) == [Idle EXCEPT !.pc = "done", !.req = task[t].req, !.cancel = task[t].cancel]

\* n counts the bundles sent: the control bundle, then the raw ones in order.
Send(t) ==
  /\ At(t, "send")
  /\ task' = [task EXCEPT ![t] = IF task[t].n = Len(task[t].raws) THEN Ended(t)
                                 ELSE [task[t] EXCEPT !.n = @ + 1]]
  /\ UNCHANGED <<active, fs, alive>>

\* An error of the sink ends process_request: the later bundles are not sent.
SendFails(t) ==
  /\ At(t, "send")
  /\ task' = [task EXCEPT ![t] = Ended(t)]
  /\ UNCHANGED <<active, fs, alive>>

\* on_unregister exits the process, as Ctrl-C does: the tasks are gone.
on_unregister ==
  /\ alive
  /\ alive' = FALSE
  /\ task' = [t \in Tasks |-> Idle]
  /\ active' = <<>>
  /\ UNCHANGED fs

FileRemoved ==
  /\ \E path \in Volatile \cap DOMAIN fs : fs' = Without(fs, path)
  /\ UNCHANGED <<task, active, alive>>

\* The steps a task takes by itself, without an answer from a server.
TaskStep(t) ==
  \/ StartRequest(t) \/ StartItem(t) \/ FinishItems(t)
  \/ FetchLocal(t) \/ FetchCancelled(t)
  \/ Search(t) \/ CompileIndex(t) \/ SearchEnds(t)
  \/ \E result \in task[t].left : SearchOne(t, result)
  \/ Send(t) \/ SendFails(t)

Next ==
  \/ \E t \in Tasks : on_deliver(t) \/ FetchWeb(t) \/ FetchVanishes(t) \/ TaskStep(t)
  \/ on_unregister
  \/ FileRemoved

Spec == Init /\ [][Next]_vars

-----------------------------------------------------------------------------
(* Properties.                                                             *)

Running == {"items", "fetch", "search", "index", "inline"}

\* The responses as the requester decodes them from the control bundle.
Responses(t) == DecodeResponse(task[t].out[1].wire).items

Op(t, resp) == Items(t)[resp.item_idx + 1].op

\* The responses are in the order of the items; an item that is no SEARCH is
\* answered exactly once, and only a CANCEL can leave out the last items:
\* losing the id to a later request with the same one must not.
AnsweredInOrder ==
  \A t \in Tasks : task[t].out # <<>> =>
    LET resps == Responses(t)
        count(k) == Cardinality({i \in DOMAIN resps : resps[i].item_idx = k - 1})
        single == {k \in DOMAIN Items(t) : Items(t)[k].op # 2}
    IN /\ \A i, j \in DOMAIN resps : i < j => resps[i].item_idx <= resps[j].item_idx
       /\ \A k \in single : count(k) <= 1
       /\ \A k, m \in single : k < m /\ count(m) = 1 => count(k) = 1
       /\ task[t].cancel # "cancelled" => \A k \in single : count(k) = 1

\* Every raw bundle is announced by a 2.05 response with its hash, by which
\* the requester finds out what it is; and every 2.05 response has its raw
\* bundle, unless it answers a CHECK or the requester owns the content.  What
\* a GET or CHECK announces fits the size and the formats asked for.
RawIsAnnounced ==
  \A t \in Tasks : task[t].out # <<>> =>
    LET resps == Responses(t)
        content == {i \in DOMAIN resps : resps[i].status = coap_status.CONTENT}
        item(i) == Items(t)[resps[i].item_idx + 1]
        due == {i \in content :
                  /\ item(i).op # 1
                  /\ item(i).op = 2 => \A h \in item(i).have : ~IsPrefix(h, resps[i].metadata.hash)}
        raws == task[t].raws
    IN /\ \A h \in {raws[k].hash : k \in DOMAIN raws} \cup {resps[i].metadata.hash : i \in due} :
            Cardinality({k \in DOMAIN raws : raws[k].hash = h})
              = Cardinality({i \in due : resps[i].metadata.hash = h})
       /\ \A i \in content : item(i).op \in {0, 1} =>
            /\ resps[i].metadata.size <= item(i).max_size
            /\ Acceptable(item(i), resps[i].metadata.mime)

\* The content of a file leaves only if the file lies in an allowed directory
\* or is mapped, whatever links and redirects lead to it; a request for a web
\* resource is never answered with a file.
OnlyServedFiles ==
  \A t \in Tasks : task[t].out # <<>> =>
    LET resps == Responses(t)
        of(i) == {p \in DOMAIN InitialFiles : InitialFiles[p].hash = resps[i].metadata.hash}
    IN \A i \in DOMAIN resps : \A p \in of(i) :
         /\ \/ \E dir \in AllowedDirs : IsPrefix(dir, p)
            \/ \E name \in DOMAIN Mappings : Canonical(Mappings[name]) = p
         /\ Op(t, resps[i]) \in {0, 1} => ~IsWeb(Items(t)[resps[i].item_idx + 1].uri)

\* An entry of active_tasks belongs to a task that still resolves items and
\* has not been cancelled; and such a task can be cancelled by its id, unless
\* another request came with the same id.
HandlesMatchTasks ==
  /\ \A id \in DOMAIN active :
       LET t == active[id] IN
       /\ Request(t).req_id = id
       /\ task[t].pc \in Running /\ task[t].cancel = "open"
  /\ \A t \in Tasks :
       /\ task[t].pc \in Running /\ task[t].cancel # "cancelled"
       /\ \A u \in Tasks \ {t} : Request(u).req_id # Request(t).req_id
       => Request(t).req_id \in DOMAIN active /\ active[Request(t).req_id] = t

\* A cancelled request never waits for anyone: until it has ended it can take
\* a step of its own, even if the server it asked never answers.
CancelledNeverWaits ==
  \A t \in Tasks : alive /\ task[t].cancel = "cancelled" /\ task[t].pc # "done" => ENABLED TaskStep(t)

\* draft-f4jxq-dtn-basket-00: CANCEL "aborts the processing and transmission
\* of all bundles associated with a previously submitted request": no raw
\* bundle of a cancelled request is sent after the cancellation.
CancelStopsSending ==
  \A t \in Tasks : task[t].cancel = "cancelled" => task[t].n <= 1
=============================================================================
