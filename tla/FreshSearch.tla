----------------------------- MODULE FreshSearch -----------------------------
(***************************************************************************)
(* What a tenant may expect of a search, with no cache in sight: the       *)
(* answer is that of the index as it was at some moment not before the     *)
(* last write that had been settled when the search began.                 *)
(***************************************************************************)
EXTENDS Naturals

CONSTANTS Tenants, Queries, Searches, MaxWrites, None

VARIABLES
  index,   \* writes to each tenant's collection so far; stands for its contents
  settled, \* how many of them a new search has to see
  open,    \* the request a search is answering and the writes it has to see
  answer   \* the answer it has found: to which request, from which contents

freshVars == <<index, settled, open, answer>>

Init ==
  /\ index = [t \in Tenants |-> 0]
  /\ settled = [t \in Tenants |-> 0]
  /\ open = [s \in Searches |-> None]
  /\ answer = [s \in Searches |-> None]

Write(t) ==
  /\ index[t] < MaxWrites
  /\ index' = [index EXCEPT ![t] = @ + 1]
  /\ UNCHANGED <<settled, open, answer>>

Settle(t) ==
  /\ \E n \in settled[t] .. index[t] : settled' = [settled EXCEPT ![t] = n]
  /\ UNCHANGED <<index, open, answer>>

Begin(s, t, q) ==
  /\ open[s] = None
  /\ open' = [open EXCEPT ![s] = [tenant |-> t, query |-> q, floor |-> settled[t]]]
  /\ UNCHANGED <<index, settled, answer>>

Find(s) ==
  /\ open[s] # None
  /\ answer[s] = None
  /\ \E n \in open[s].floor .. index[open[s].tenant] :
       answer' = [answer EXCEPT ![s] = [tenant |-> open[s].tenant,
                                        query |-> open[s].query, contents |-> n]]
  /\ UNCHANGED <<index, settled, open>>

\* The search returns its answer, or an error.
End(s) ==
  /\ open[s] # None
  /\ open' = [open EXCEPT ![s] = None]
  /\ answer' = [answer EXCEPT ![s] = None]
  /\ UNCHANGED <<index, settled>>

Next ==
  \/ \E t \in Tenants : Write(t) \/ Settle(t)
  \/ \E s \in Searches, t \in Tenants, q \in Queries : Begin(s, t, q)
  \/ \E s \in Searches : Find(s) \/ End(s)

Spec == Init /\ [][Next]_freshVars
=============================================================================
