---------------------------- MODULE DebounceProofs ----------------------------
(***************************************************************************)
(* What the debounce window keeps for every number of conversations,       *)
(* processes and messages.                                                 *)
(***************************************************************************)
EXTENDS Debounce, TLAPS

\* The inductive invariant: the types, the agreement of the dictionaries
\* with the running tasks, and the successor of every deferred message.
WindowInv == DebounceTypeOK /\ OneWindowPerKey /\ DeferredIsCovered

LEMMA WindowInit == DebounceInit => WindowInv
  BY DebounceConstants
  DEF DebounceInit, WindowInv, DebounceTypeOK, OneWindowPerKey, DeferredIsCovered, TimerStates

\* _handle_with_debounce keeps the invariant: the only task of the key is
\* the one it cancels, so the new one is alone; every message deferred
\* before now waits for the new one.
LEMMA RegisterKeepsInv ==
  ASSUME NEW c \in Calls, NEW k \in Keys, WindowInv, Register(c, k)
  PROVE  WindowInv'
<1> USE DebounceConstants DEF WindowInv, Running
<1>1. DebounceTypeOK'
  BY DEF DebounceTypeOK, Register, TimerStates
<1>2. \A d \in Calls : d # c =>
          timer'[d] = IF d = tasks[k] /\ timer[d] = "waiting" THEN "cancelled" ELSE timer[d]
  BY DEF Register
<1>3. timer'[c] = "waiting" /\ window'[c] = k /\ latest'[k] = c /\ tasks'[k] = c
  BY DEF Register, DebounceTypeOK
<1>4. /\ \A d \in Calls : d # c => window'[d] = window[d]
      /\ \A j \in Keys : j # k => latest'[j] = latest[j] /\ tasks'[j] = tasks[j]
  BY DEF Register, DebounceTypeOK
<1>5. OneWindowPerKey'
  <2>1. ASSUME NEW d \in Calls, timer'[d] = "waiting"
        PROVE  window'[d] \in Keys /\ tasks'[window'[d]] = d
    <3>1. CASE d = c
      BY <1>3, <3>1
    <3>2. CASE d # c
      <4>1. timer[d] = "waiting" /\ d # tasks[k]
        BY <1>2, <2>1, <3>2
      <4>2. window[d] \in Keys /\ tasks[window[d]] = d /\ window[d] # k
        BY <4>1 DEF OneWindowPerKey
      <4> QED
        BY <1>4, <3>2, <4>2
    <3> QED
      BY <3>1, <3>2
  <2>2. ASSUME NEW j \in Keys
        PROVE  /\ latest'[j] = tasks'[j]
               /\ tasks'[j] # NoCall => timer'[tasks'[j]] = "waiting" /\ window'[tasks'[j]] = j
    <3>1. CASE j = k
      BY <1>3, <3>1
    <3>2. CASE j # k
      <4>1. latest'[j] = latest[j] /\ tasks'[j] = tasks[j] /\ latest[j] = tasks[j]
        BY <1>4, <3>2 DEF OneWindowPerKey
      <4>2. ASSUME tasks[j] # NoCall
            PROVE  timer'[tasks[j]] = "waiting" /\ window'[tasks[j]] = j
        <5>1. tasks[j] \in Calls /\ timer[tasks[j]] = "waiting" /\ window[tasks[j]] = j
          BY <4>2 DEF OneWindowPerKey, DebounceTypeOK
        <5>2. tasks[j] # c
          BY <5>1 DEF Register
        <5>3. tasks[j] # tasks[k]
          BY <3>2, <4>2, <5>1 DEF OneWindowPerKey
        <5> QED
          BY <1>2, <1>4, <5>1, <5>2, <5>3
      <4> QED
        BY <4>1, <4>2
    <3> QED
      BY <3>1, <3>2
  <2>3. \A d \in Calls : timer'[d] # "stale"
    BY <1>2, <1>3 DEF OneWindowPerKey
  <2> QED
    BY <2>1, <2>2, <2>3 DEF OneWindowPerKey
<1>6. DeferredIsCovered'
  <2> SUFFICES ASSUME NEW d \in Calls, timer'[d] = "cancelled"
               PROVE  \E e \in Calls : window'[e] = window'[d]
                                       /\ timer'[e] \in {"waiting", "fired", "lost"}
    BY DEF DeferredIsCovered
  <2>1. d # c
    BY <1>3
  <2>2. CASE d = tasks[k] /\ timer[d] = "waiting"
    <3>1. window[d] = k
      BY <2>2, DebounceConstants DEF OneWindowPerKey
    <3> QED
      BY <1>3, <1>4, <2>1, <3>1
  <2>3. CASE timer[d] = "cancelled"
    <3>1. PICK e \in Calls : window[e] = window[d] /\ timer[e] \in {"waiting", "fired", "lost"}
      BY <2>3 DEF DeferredIsCovered
    <3>2. e # c
      BY <3>1 DEF Register
    <3>3. CASE e = tasks[k] /\ timer[e] = "waiting"
      <4>1. window[e] = k
        BY <3>3, DebounceConstants DEF OneWindowPerKey
      <4> QED
        BY <1>3, <1>4, <2>1, <3>1, <4>1
    <3>4. CASE ~(e = tasks[k] /\ timer[e] = "waiting")
      BY <1>2, <1>4, <2>1, <3>1, <3>2, <3>4
    <3> QED
      BY <3>3, <3>4
  <2> QED
    BY <1>2, <2>1, <2>2, <2>3
<1> QED
  BY <1>1, <1>5, <1>6

\* _debounce_execute keeps the invariant: the task that wakes is the one of
\* its key and its event the latest, so it fires and clears both entries.
LEMMA ExecuteKeepsInv ==
  ASSUME NEW c \in Calls, WindowInv, Execute(c)
  PROVE  WindowInv'
<1> USE DebounceConstants DEF WindowInv
<1> DEFINE k == window[c]
<1>1. timer[c] = "waiting" /\ k \in Keys /\ tasks[k] = c /\ latest[k] = c
  BY DEF Execute, OneWindowPerKey
<1>2. /\ timer' = [timer EXCEPT ![c] = "fired"]
      /\ latest' = [latest EXCEPT ![k] = NoCall]
      /\ tasks' = [tasks EXCEPT ![k] = NoCall]
      /\ window' = window
  BY <1>1 DEF Execute
<1> HIDE DEF k
<1>3. DebounceTypeOK'
  BY <1>1, <1>2 DEF DebounceTypeOK, TimerStates
<1>4. OneWindowPerKey'
  BY <1>1, <1>2 DEF OneWindowPerKey, DebounceTypeOK, k
<1>5. DeferredIsCovered'
  BY <1>1, <1>2 DEF DeferredIsCovered, DebounceTypeOK
<1> QED
  BY <1>3, <1>4, <1>5

\* A restart keeps the invariant: tasks and entries of a key go together.
LEMMA RestartKeepsInv ==
  ASSUME NEW K \in SUBSET Keys, WindowInv, Restart(K)
  PROVE  WindowInv'
<1> USE DebounceConstants DEF WindowInv, Running
<1>1. DebounceTypeOK'
  BY DEF DebounceTypeOK, Restart, TimerStates
<1>2. OneWindowPerKey'
  BY DEF OneWindowPerKey, DebounceTypeOK, Restart
<1>3. DeferredIsCovered'
  BY DEF DeferredIsCovered, DebounceTypeOK, Restart
<1> QED
  BY <1>1, <1>2, <1>3

LEMMA WindowStep == WindowInv /\ [DebounceNext]_debounceVars => WindowInv'
<1> SUFFICES ASSUME WindowInv, [DebounceNext]_debounceVars
             PROVE  WindowInv'
  OBVIOUS
<1>1. ASSUME NEW c \in Calls, NEW k \in Keys, Register(c, k)
      PROVE  WindowInv'
  BY <1>1, RegisterKeepsInv
<1>2. ASSUME NEW c \in Calls, Execute(c)
      PROVE  WindowInv'
  BY <1>2, ExecuteKeepsInv
<1>3. ASSUME NEW k \in Keys, Restart({k})
      PROVE  WindowInv'
  <2>1. {k} \in SUBSET Keys
    OBVIOUS
  <2> QED
    BY <1>3, <2>1, RestartKeepsInv
<1>4. CASE UNCHANGED debounceVars
  BY <1>4 DEF WindowInv, DebounceTypeOK, OneWindowPerKey, DeferredIsCovered, debounceVars
<1> QED
  BY <1>1, <1>2, <1>3, <1>4 DEF DebounceNext

\* The dictionaries of the debounce window agree with the running tasks: one
\* task per conversation, always that of its latest message.
THEOREM OneTaskPerConversation == DebounceSpec => []OneWindowPerKey
<1>1. WindowInv => OneWindowPerKey
  BY DEF WindowInv
<1> QED
  BY WindowInit, WindowStep, <1>1, PTL DEF DebounceSpec

\* A deferred message always has a later one of its burst that waits or has
\* been processed, unless the process stopped.
THEOREM NoBurstIsDropped == DebounceSpec => []DeferredIsCovered
<1>1. WindowInv => DeferredIsCovered
  BY DEF WindowInv
<1> QED
  BY WindowInit, WindowStep, <1>1, PTL DEF DebounceSpec
=============================================================================
