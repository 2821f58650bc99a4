----------------------------- MODULE TrustGraph ------------------------------
(***************************************************************************)
(* SEFraudGNN.  evaluate_trust_score builds a graph from the returns table  *)
(* and reads it back; the graph is an attribute of the one object that all  *)
(* threads of the service use, so a request may go on with the graph that   *)
(* another request has put in its place.                                  *)
(***************************************************************************)
EXTENDS Integers, Sequences, FiniteSets, SequencesExt

CONSTANTS
  Threads,     \* threads that serve trust scores
  Users,       \* users that are asked for or appear in returns
  Tables,      \* states of ReturnsTable: sequences of rows
               \* [user, device, ip, score], device or ip may be NoMark
  NoMark,      \* an attribute that a row lacks
  ScanLimit    \* rows that the scan of all returns reads (Limit=100)

(* Users, devices and addresses are nodes of one graph under their own       *)
(* names: no user is called like a device.                                 *)
ASSUME TrustAssumption ==
  /\ ScanLimit \in Nat
  /\ \A rows \in Tables :
       /\ Len(rows) \in Nat /\ DOMAIN rows = 1 .. Len(rows)
       /\ \A i \in DOMAIN rows :
            /\ rows[i].user \in Users /\ rows[i].score \in 0 .. 100
            /\ rows[i].device \notin Users /\ rows[i].ip \notin Users

VARIABLES
  returns,    \* the rows of ReturnsTable
  graph,      \* self.graph: nodes, nodes typed 'user', scores, user-mark edges
  asking      \* asking[t]: the request of thread t, how far it is, its answer

trustVars == <<returns, graph, asking>>

TrustInit ==
  /\ returns \in Tables
  /\ graph = [nodes |-> {}, typed |-> {}, score |-> [u \in Users |-> 100], edges |-> {}]
  /\ asking = [t \in Threads |-> [at |-> "done", clean |-> FALSE]]

Asking(t) == asking[t].at # "done"

(* mutant: the request adds to the graph that is there *)
FreshOrOld(u) ==
  [nodes |-> graph.nodes \cup {u}, typed |-> graph.typed \cup {u},
   score |-> [graph.score EXCEPT ![u] = 100], edges |-> graph.edges]

Fresh(u) ==
  [nodes |-> {u}, typed |-> {u}, score |-> [v \in Users |-> 100], edges |-> {}]

(* self.graph is replaced, then the request waits for the user's returns.   *)
Begin(t) ==
  /\ ~Asking(t)
  /\ \E u \in Users :
       /\ graph' = Fresh(u)
       /\ asking' = [q \in Threads |->
            IF q = t
            THEN [at |-> "own", user |-> u, complete |-> TRUE, clean |-> \A o \in Threads : ~Asking(o)]
            ELSE IF Asking(q) THEN [asking[q] EXCEPT !.clean = FALSE] ELSE asking[q]]
  /\ UNCHANGED returns

(* A failed query or scan ends the building: the except block goes on with  *)
(* what there is.                                                         *)
Fails(t) ==
  /\ asking[t].at \in {"own", "scan"}
  /\ asking' = [asking EXCEPT ![t].at = "score", ![t].complete = FALSE]
  /\ UNCHANGED <<returns, graph>>

Linked(g, u, marks) ==
  [g EXCEPT !.nodes = @ \cup marks \cup (IF marks = {} THEN {} ELSE {u}),
            !.edges = @ \cup {<<u, m>> : m \in marks}]

(* mutant: a missing attribute is a mark like any other *)
OwnMarksOrNone(u) ==
  UNION {{returns[i].device, returns[i].ip} : i \in {j \in DOMAIN returns : returns[j].user = u}}

OwnMarks(u) ==
  (UNION {{returns[i].device, returns[i].ip} : i \in {j \in DOMAIN returns : returns[j].user = u}})
    \ {NoMark}

OwnReturns(t) ==
  /\ asking[t].at = "own"
  /\ graph' = Linked(graph, asking[t].user, OwnMarks(asking[t].user))
  /\ asking' = [asking EXCEPT ![t].at = "scan"]
  /\ UNCHANGED returns

(* The scan of the returns, one page of them: whoever used a device of the   *)
(* graph joins it.                                                        *)
PageSize == IF Len(returns) < ScanLimit THEN Len(returns) ELSE ScanLimit
Page == [i \in 1 .. PageSize |-> returns[i]]

OtherReturns(t) ==
  LET join(g, row) ==
        IF row.user = asking[t].user \/ row.device = NoMark \/ row.device \notin g.nodes THEN g
        ELSE [Linked(g, row.user, {row.device}) EXCEPT
                !.typed = @ \cup {row.user}, !.score[row.user] = row.score]
  IN /\ asking[t].at = "scan"
     /\ graph' = FoldLeft(join, graph, Page)
     /\ asking' = [asking EXCEPT ![t].at = "score"]
     /\ UNCHANGED returns

(* Users two hops away with a low score, once per shared device.           *)
Suspects(u) ==
  {e \in graph.edges :
     /\ <<u, e[2]>> \in graph.edges
     /\ e[1] # u /\ e[1] \in graph.typed /\ graph.score[e[1]] < 50}

(* evaluate_trust_score: a bare 100 when the user is not in the graph, in    *)
(* place of the record that the review of a return reads.                  *)
Verdict(u) ==
  LET left == graph.score[u] - 20 * Cardinality(Suspects(u))
      final == IF left < 0 THEN 0 ELSE left
  IN IF u \notin graph.nodes THEN [record |-> FALSE, final |-> 100]
     ELSE [record |-> TRUE, final |-> final, revoked |-> final < 70, flagged |-> final < 30]

(* What get_fraud_graphrag advises, or fails with when there is no record.  *)
Advice(verdict) ==
  IF ~verdict.record THEN "error"
  ELSE IF verdict.final < 30 THEN "hold refund"
  ELSE IF verdict.final < 70 THEN "request documents" ELSE "proceed"

Evaluate(t) ==
  /\ asking[t].at = "score"
  /\ asking' = [asking EXCEPT ![t] =
       [at |-> "done", user |-> @.user, clean |-> @.clean /\ @.complete,
        verdict |-> Verdict(@.user), advice |-> Advice(Verdict(@.user))]]
  /\ UNCHANGED <<returns, graph>>

TrustNext ==
  \E t \in Threads : Begin(t) \/ Fails(t) \/ OwnReturns(t) \/ OtherReturns(t) \/ Evaluate(t)

TrustSpec == TrustInit /\ [][TrustNext]_trustVars

-----------------------------------------------------------------------------
(* The score by the rows alone: 20 less for every device of the user that   *)
(* another user, whose last noted score is below 50, has used, as far as    *)
(* the page shows the other user's returns.                               *)
LastScore(v, devices) ==
  LET rows == {i \in DOMAIN Page : Page[i].user = v /\ Page[i].device \in devices}
  IN Page[CHOOSE i \in rows : \A j \in rows : j <= i].score

ScoreByRows(u) ==
  LET devices == OwnMarks(u)
      shared == {s \in (Users \ {u}) \X devices :
                   \E i \in DOMAIN Page : Page[i].user = s[1] /\ Page[i].device = s[2]}
      low == {s \in shared : LastScore(s[1], devices) < 50}
  IN IF 20 * Cardinality(low) > 100 THEN 0 ELSE 100 - 20 * Cardinality(low)

(* Only a request that ran into another one, or whose reads failed, is      *)
(* answered with anything else than what the rows it reads say, the advice  *)
(* on the refund included.                                                *)
OnlyOverlapsMisjudge ==
  \A t \in Threads :
    ~Asking(t) /\ asking[t].clean =>
      /\ asking[t].verdict.record
      /\ asking[t].verdict.final = ScoreByRows(asking[t].user)
      /\ asking[t].advice = "hold refund" <=> asking[t].verdict.flagged

(* A return shows that user v has used the mark m.                         *)
UsedMark(i, v, m) ==
  returns[i].user = v /\ m # NoMark /\ m \in {returns[i].device, returns[i].ip}

(* Marks that u shares with another user of whom some return notes a score   *)
(* below 50.                                                              *)
Ties(u) ==
  {s \in (Users \ {u}) \X UNION {{returns[i].device, returns[i].ip} : i \in DOMAIN returns} :
     /\ \E i \in DOMAIN returns : UsedMark(i, s[1], s[2])
     /\ \E i \in DOMAIN returns : UsedMark(i, u, s[2])
     /\ \E i \in DOMAIN returns : returns[i].user = s[1] /\ returns[i].score < 50}

(* Whichever graph a request ends up with, its own, another request's or a   *)
(* mixture of both, the user is charged for real ties only: the score falls  *)
(* by at most 20 for each mark shared with a user who once scored low, from  *)
(* 100 or from a score that a return of the user notes.                     *)
OnlyRealTiesCount ==
  \A t \in Threads :
    "verdict" \in DOMAIN asking[t] =>
      \E base \in {100} \cup {returns[i].score : i \in {j \in DOMAIN returns : returns[j].user = asking[t].user}} :
        asking[t].verdict.final >= base - 20 * Cardinality(Ties(asking[t].user))
=============================================================================
