----------------------------- MODULE EventFeed -----------------------------
(***************************************************************************)
(* What a subscriber to account events is promised (README.md:312-313,     *)
(* streams.py:22-23): from the first event it gets, it gets every event    *)
(* once and in order, however many connections that takes.                 *)
(***************************************************************************)
EXTENDS Naturals, Sequences

VARIABLES
  emitted,   \* the account's events so far are 1..emitted
  delivered  \* the event ids handed to the subscriber

feedVars == <<emitted, delivered>>

Init == emitted = 0 /\ delivered = << >>

\* The engine emits the next event of the account.
Emit == emitted' = emitted + 1 /\ UNCHANGED delivered

\* The first event may be any; after it comes the next one.
Deliver ==
  /\ \E e \in 1..emitted :
       /\ delivered # << >> => e = delivered[Len(delivered)] + 1
       /\ delivered' = Append(delivered, e)
  /\ UNCHANGED emitted

Next == Emit \/ Deliver

Spec == Init /\ [][Next]_feedVars
=============================================================================
