------------------------------- MODULE Settings -------------------------------
(* What a configuration promises: a map from keys to values in memory, and a   *)
(* stored one that a save makes equal to it and a start reads.  A start may    *)
(* read nothing, and then the next save stores nothing else than what was set  *)
(* since.  A save first wipes what is stored; when it breaks off, or the       *)
(* program dies in it, some of the settings are lost, and at most one is       *)
(* stored incompletely, but none has the value of another time or another key. *)
(* A value is stored up to its first '#' only.                                 *)

CONSTANTS
    Keys,    \* the settings
    Value,   \* their values
    Unset,   \* the value of one that is not set
    Cut(_),  \* what remains of a value that was stored
    Parts(_) \* the values it may have when it was stored incompletely

VARIABLES
    settings, \* in memory
    running,  \* the program runs
    stored,   \* in the file
    wiped     \* a save has begun

vars == <<settings, running, stored, wiped>>

Nothing == [k \in Keys |-> Unset]

Init ==
    /\ stored \in [Keys -> Value]
    /\ settings = Nothing
    /\ running = FALSE
    /\ wiped = FALSE

\* The program starts, and reads what is stored or cannot.
Begin ==
    /\ ~running
    /\ running' = TRUE
    /\ settings' \in {stored, Nothing}
    /\ UNCHANGED <<stored, wiped>>

\* (TLC evaluates what settings stands for once.)
Set ==
    /\ running
    /\ ~wiped
    /\ \E now \in {settings} :
          settings' \in {[now EXCEPT ![k] = v] : k \in Keys, v \in Value}
    /\ UNCHANGED <<running, stored, wiped>>

\* A save begins.
Wipe ==
    /\ running
    /\ ~wiped
    /\ stored' = Nothing
    /\ wiped' = TRUE
    /\ UNCHANGED <<settings, running>>

Save ==
    /\ wiped
    /\ \E now \in {settings} : stored' = [k \in Keys |-> Cut(now[k])]
    /\ wiped' = FALSE
    /\ UNCHANGED <<settings, running>>

\* What a save of the settings has stored when it does not reach its end.
Torn(now, then) ==
    /\ then \in [Keys -> Value]
    /\ \E last \in Keys :
          /\ then[last] \in {Unset, Cut(now[last])} \cup Parts(Cut(now[last]))
          /\ \A k \in Keys \ {last} : then[k] \in {Unset, Cut(now[k])}

\* A save breaks off, and the program goes on.
Break ==
    /\ wiped
    /\ \E now \in {settings}, then \in {stored'} : Torn(now, then)
    /\ wiped' = FALSE
    /\ UNCHANGED <<settings, running>>

\* The program ends or dies.
End ==
    /\ running
    /\ running' = FALSE
    /\ settings' = Nothing
    /\ IF wiped
         THEN \E now \in {settings}, then \in {stored'} : Torn(now, then)
         ELSE UNCHANGED stored
    /\ wiped' = FALSE

Next ==
    \/ Begin \/ Set \/ Wipe \/ Save \/ Break \/ End

Spec == Init /\ [][Next]_vars
===============================================================================
