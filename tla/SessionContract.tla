---------------------------- MODULE SessionContract ----------------------------
(***************************************************************************)
(* What a Conn of an isolated connector promises: one current session      *)
(* until it closes; work binds to the session that is current at that      *)
(* moment and stays on it; a reset replaces the session, at once, by one   *)
(* that was never current; closing is final.                               *)
(***************************************************************************)
CONSTANTS Goroutine, Session, NoSession

VARIABLES session,   \* the current session, NoSession once closed
          retired,   \* the sessions that can no longer become current
          bound      \* the session each goroutine's work runs on

contractVars == <<session, retired, bound>>

ContractInit ==
    /\ session \in Session
    /\ retired = {}
    /\ bound = [g \in Goroutine |-> NoSession]

Bind(g) ==
    /\ session # NoSession
    /\ bound[g] = NoSession
    /\ bound' = [bound EXCEPT ![g] = session]
    /\ UNCHANGED <<session, retired>>

Finish(g) ==
    /\ bound[g] # NoSession
    /\ bound' = [bound EXCEPT ![g] = NoSession]
    /\ UNCHANGED <<session, retired>>

Replace(n) ==
    /\ session \notin {NoSession, n}
    /\ n \notin retired
    /\ session' = n
    /\ retired' = retired \union {session}
    /\ UNCHANGED bound

\* A session that is not current is given up: a replacement that failed, or
\* what a closed Conn leaves.
Discard(n) ==
    /\ n # session
    /\ retired' = retired \union {n}
    /\ UNCHANGED <<session, bound>>

Shut ==
    /\ session # NoSession
    /\ session' = NoSession
    /\ UNCHANGED <<retired, bound>>

ContractNext ==
    \/ \E g \in Goroutine : Bind(g) \/ Finish(g)
    \/ \E n \in Session : Replace(n) \/ Discard(n)
    \/ Shut

ContractSpec == ContractInit /\ [][ContractNext]_contractVars
=============================================================================
