------------------------------ MODULE RangeSet ------------------------------
(***************************************************************************)
(* RangeSet of the ltp crate: a set of octet positions as a sequence of    *)
(* half-open runs <<start, end>>, sorted, disjoint and never adjacent.     *)
(***************************************************************************)
EXTENDS Naturals, Sequences, SequencesExt, FiniteSetsExt

Start(r) == r[1]
End(r) == r[2]
Lesser(a, b) == IF a < b THEN a ELSE b
Greater(a, b) == IF a > b THEN a ELSE b

(* partition_point: how many leading runs satisfy the test. *)
PartitionPoint(runs, Test(_)) == Cardinality({i \in DOMAIN runs : Test(runs[i])})

(* Mutant: the merged run ends where the new range ends. *)
MergedShort(runs, r) ==
  LET first == PartitionPoint(runs, LAMBDA run : End(run) < Start(r))
      step(acc, run) ==
        IF acc.open /\ Start(run) <= acc.e
        THEN [acc EXCEPT !.s = Lesser(@, Start(run)), !.n = @ + 1]
        ELSE [acc EXCEPT !.open = FALSE]
      m == FoldLeft(step, [s |-> Start(r), e |-> End(r), n |-> 0, open |-> TRUE],
                    SubSeq(runs, first + 1, Len(runs)))
  IN SubSeq(runs, 1, first) \o <<<<m.s, m.e>>>> \o SubSeq(runs, first + m.n + 1, Len(runs))

(* The general path of insert: the runs that touch r, from the first that  *)
(* does not end before it, are replaced by one.                            *)
Merged(runs, r) ==
  LET first == PartitionPoint(runs, LAMBDA run : End(run) < Start(r))
      step(acc, run) ==
        IF acc.open /\ Start(run) <= acc.e
        THEN [acc EXCEPT !.s = Lesser(@, Start(run)), !.e = Greater(@, End(run)), !.n = @ + 1]
        ELSE [acc EXCEPT !.open = FALSE]
      m == FoldLeft(step, [s |-> Start(r), e |-> End(r), n |-> 0, open |-> TRUE],
                    SubSeq(runs, first + 1, Len(runs)))
  IN SubSeq(runs, 1, first) \o <<<<m.s, m.e>>>> \o SubSeq(runs, first + m.n + 1, Len(runs))

(* insert, with its short cuts for what arrives in order. *)
Insert(runs, r) ==
  IF Start(r) >= End(r) THEN runs
  ELSE IF runs = <<>> THEN <<r>>
  ELSE LET last == Last(runs)
       IN CASE End(last) = Start(r) -> Append(Front(runs), <<Start(last), End(r)>>)
            [] End(last) < Start(r) -> Append(runs, r)
            [] Start(last) <= Start(r) /\ End(r) <= End(last) -> runs
            [] OTHER -> Merged(runs, r)

Covers(runs, r) ==
  \/ Start(r) >= End(r)
  \/ LET i == PartitionPoint(runs, LAMBDA run : End(run) < End(r)) + 1
     IN i \in DOMAIN runs /\ Start(runs[i]) <= Start(r) /\ End(r) <= End(runs[i])

RunsWithin(runs, scope) ==
  LET skip == PartitionPoint(runs, LAMBDA run : End(run) <= Start(scope))
      take == PartitionPoint(runs, LAMBDA run : Start(run) < End(scope))
  IN [i \in 1 .. (IF take > skip THEN take - skip ELSE 0) |->
        <<Greater(Start(runs[skip + i]), Start(scope)), Lesser(End(runs[skip + i]), End(scope))>>]

(* The gap iterator: before each run, and after the last one. *)
Gaps(runs, scope) ==
  LET step(acc, run) ==
        [gaps |-> IF Start(run) > acc.cursor THEN Append(acc.gaps, <<acc.cursor, Start(run)>>)
                  ELSE acc.gaps,
         cursor |-> End(run)]
      end == FoldLeft(step, [gaps |-> <<>>, cursor |-> Start(scope)], RunsWithin(runs, scope))
  IN IF end.cursor < End(scope) THEN Append(end.gaps, <<end.cursor, End(scope)>>) ELSE end.gaps

-----------------------------------------------------------------------------
(* What the runs stand for, and the form they must have. *)

Points(r) == Start(r) .. (End(r) - 1)
Values(runs) == UNION {Points(runs[i]) : i \in DOMAIN runs}
Coalesced(runs) ==
  /\ \A i \in DOMAIN runs : Start(runs[i]) < End(runs[i])
  /\ \A i \in 1 .. (Len(runs) - 1) : End(runs[i]) < Start(runs[i + 1])
=============================================================================
