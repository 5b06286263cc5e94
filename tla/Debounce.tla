------------------------------- MODULE Debounce -------------------------------
(***************************************************************************)
(* The debounce window of core/services/inbound_handler.py: the module     *)
(* dictionaries _debounce_latest and _debounce_tasks, the coroutine        *)
(* _handle_with_debounce that every deferrable message goes through and    *)
(* the task _debounce_execute it starts.                                   *)
(*                                                                         *)
(* Both bodies under _debounce_lock contain no await, so each is one step. *)
(* Task.cancel() reaches a task that has not run its check yet even when   *)
(* its sleep is over: between two steps a task is waiting or finished.     *)
(* The dictionaries belong to a process: a key is a jid in a process.      *)
(***************************************************************************)
CONSTANTS
    Keys,     \* jids, one per process that may see them
    Calls,    \* calls of _handle_with_debounce, each with its own message
    NoCall    \* a missing dictionary entry, or key

ASSUME DebounceConstants == NoCall \notin Calls \cup Keys

VARIABLES
    latest,   \* _debounce_latest: the call whose message the entry holds
    tasks,    \* _debounce_tasks: the call whose task the entry holds
    timer,    \* what became of the task of each call
    window    \* the key each call was registered under

debounceVars == <<latest, tasks, timer, window>>

TimerStates == {"none", "waiting", "cancelled", "fired", "stale", "lost"}

DebounceInit ==
    /\ latest = [k \in Keys |-> NoCall]
    /\ tasks = [k \in Keys |-> NoCall]
    /\ timer = [c \in Calls |-> "none"]
    /\ window = [c \in Calls |-> NoCall]

-----------------------------------------------------------------------------
\* existing is not None and not existing.done()
Running(d) == d \in Calls /\ timer[d] = "waiting"

\* Mutant: the task that waits is not cancelled.
RegisterNoCancel(c, k) ==
    /\ timer[c] = "none"
    /\ latest' = [latest EXCEPT ![k] = c]
    /\ timer' = [timer EXCEPT ![c] = "waiting"]
    /\ tasks' = [tasks EXCEPT ![k] = c]
    /\ window' = [window EXCEPT ![c] = k]

\* Mutant: the event of an entry that is there already is not replaced.
RegisterKeepsLatest(c, k) ==
    /\ timer[c] = "none"
    /\ latest' = [latest EXCEPT ![k] = IF @ = NoCall THEN c ELSE @]
    /\ timer' = [d \in Calls |->
                    IF d = c THEN "waiting"
                    ELSE IF d = tasks[k] /\ Running(d) THEN "cancelled"
                    ELSE timer[d]]
    /\ tasks' = [tasks EXCEPT ![k] = c]
    /\ window' = [window EXCEPT ![c] = k]

\* The locked body of _handle_with_debounce: the new event becomes the
\* latest one, the task that waits is cancelled and a new one is started.
Register(c, k) ==
    /\ timer[c] = "none"
    /\ latest' = [latest EXCEPT ![k] = c]
    /\ timer' = [d \in Calls |->
                    IF d = c THEN "waiting"
                    ELSE IF d = tasks[k] /\ Running(d) THEN "cancelled"
                    ELSE timer[d]]
    /\ tasks' = [tasks EXCEPT ![k] = c]
    /\ window' = [window EXCEPT ![c] = k]

\* _debounce_execute after its sleep: process the message if it is still the
\* latest one, and drop the entries that are this task's own.
Execute(c) ==
    LET k == window[c]
    IN  /\ timer[c] = "waiting"
        /\ timer' = [timer EXCEPT ![c] = IF latest[k] = c THEN "fired" ELSE "stale"]
        /\ latest' = [latest EXCEPT ![k] = IF @ = c THEN NoCall ELSE @]
        /\ tasks' = [tasks EXCEPT ![k] = IF @ = c THEN NoCall ELSE @]
        /\ UNCHANGED window

\* The process that holds the keys K stops: its dictionaries and tasks are gone.
Restart(K) ==
    /\ latest' = [k \in Keys |-> IF k \in K THEN NoCall ELSE latest[k]]
    /\ tasks' = [k \in Keys |-> IF k \in K THEN NoCall ELSE tasks[k]]
    /\ timer' = [c \in Calls |-> IF Running(c) /\ window[c] \in K THEN "lost" ELSE timer[c]]
    /\ UNCHANGED window

DebounceNext ==
    \/ \E c \in Calls, k \in Keys : Register(c, k)
    \/ \E c \in Calls : Execute(c)
    \/ \E k \in Keys : tasks[k] # NoCall /\ Restart({k})

DebounceSpec == DebounceInit /\ [][DebounceNext]_debounceVars

-----------------------------------------------------------------------------
DebounceTypeOK ==
    /\ latest \in [Keys -> Calls \cup {NoCall}]
    /\ tasks \in [Keys -> Calls \cup {NoCall}]
    /\ timer \in [Calls -> TimerStates]
    /\ window \in [Calls -> Keys \cup {NoCall}]

\* The two dictionaries and the running tasks agree: a key's entry in
\* _debounce_tasks is a running task, the only one of the key, and
\* _debounce_latest holds that same task's event.  Hence a task whose sleep
\* ends is always the latest of its burst, the comparison in
\* _debounce_execute never fails, and no entry outlives its burst.
OneWindowPerKey ==
    /\ \A c \in Calls : timer[c] = "waiting" => window[c] \in Keys /\ tasks[window[c]] = c
    /\ \A k \in Keys : /\ latest[k] = tasks[k]
                       /\ tasks[k] # NoCall => timer[tasks[k]] = "waiting" /\ window[tasks[k]] = k
    /\ \A c \in Calls : timer[c] # "stale"

\* No burst is dropped: a message that was deferred has a later one of its
\* key that is waiting or was processed, unless the process stopped.
DeferredIsCovered ==
    \A c \in Calls : timer[c] = "cancelled" =>
        \E d \in Calls : window[d] = window[c] /\ timer[d] \in {"waiting", "fired", "lost"}
=============================================================================
