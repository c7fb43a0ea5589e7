------------------------ MODULE GoogleExchangeProofs ------------------------
(***************************************************************************)
(* Proofs about GoogleExchange, for any number of threads and exchanges.   *)
(*                                                                         *)
(* That the library is up under an exchange is not inductive: another one  *)
(* that takes it down must leave it up.  The count is at least that of the *)
(* exchanges inside, because only a thread that is itself inside takes one *)
(* away.  For the contexts, the invariant says what the manager's default  *)
(* can be before a session is made.                                        *)
(***************************************************************************)
EXTENDS GoogleExchange, FiniteSetTheorems, TLAPS

(* Before its session an exchange that was not interrupted finds a context *)
(* that was set up, its own or another one's.                              *)
SetUpFound ==
    \A t \in Threads : pc[t] = "session" /\ t \notin interrupted => default \in Threads

ThreadsInside == {t \in Threads : pc[t] \in Inside}

UpForEach == initialized >= Cardinality(ThreadsInside)

Invariant ==
    /\ TypeOK
    /\ UpForEach
    /\ SetUpFound
    /\ CodeUnderOwnSettings

-----------------------------------------------------------------------------
(* What a step of a thread does to the set of the threads inside. *)
LEMMA Enters ==
    ASSUME NEW t \in Threads, TypeOK, pc[t] \notin Inside, NEW step \in Inside, Goto(t, step)
    PROVE  Cardinality(ThreadsInside') = Cardinality(ThreadsInside) + 1
<1>1. ThreadsInside' = ThreadsInside \cup {t}
    BY DEF ThreadsInside, Goto, TypeOK
<1>2. IsFiniteSet(ThreadsInside)
    BY ExchangeAssumption, FS_Subset DEF ThreadsInside
<1>3. t \notin ThreadsInside
    BY DEF ThreadsInside
<1> HIDE DEF ThreadsInside
<1> QED BY <1>1, <1>2, <1>3, FS_AddElement

LEMMA Leaves ==
    ASSUME NEW t \in Threads, TypeOK, pc[t] \in Inside, NEW step, step \notin Inside,
           Goto(t, step)
    PROVE  /\ Cardinality(ThreadsInside') = Cardinality(ThreadsInside) - 1
           /\ Cardinality(ThreadsInside') \in Nat
<1>1. ThreadsInside' = ThreadsInside \ {t}
    BY DEF ThreadsInside, Goto, TypeOK
<1>2. IsFiniteSet(ThreadsInside)
    BY ExchangeAssumption, FS_Subset DEF ThreadsInside
<1>3. t \in ThreadsInside
    BY DEF ThreadsInside
<1>4. IsFiniteSet(ThreadsInside')
    BY <1>1, <1>2, FS_RemoveElement
<1>5. Cardinality(ThreadsInside') \in Nat
    BY <1>4, FS_CardinalityType
<1> HIDE DEF ThreadsInside
<1> QED BY <1>1, <1>2, <1>3, <1>5, FS_RemoveElement

LEMMA Remains ==
    ASSUME NEW t \in Threads, TypeOK, NEW step, Goto(t, step),
           pc[t] \in Inside <=> step \in Inside
    PROVE  ThreadsInside' = ThreadsInside
BY DEF ThreadsInside, Goto, TypeOK

LEMMA CountTyped ==
    Cardinality(ThreadsInside) \in Nat
<1>1. IsFiniteSet(ThreadsInside)
    BY ExchangeAssumption, FS_Subset DEF ThreadsInside
<1> QED BY <1>1, FS_CardinalityType

-----------------------------------------------------------------------------
LEMMA InitInvariant == Init => Invariant
<1> SUFFICES ASSUME Init PROVE Invariant
    OBVIOUS
<1>1. ThreadsInside = {}
    BY DEF Init, ThreadsInside, Inside
<1>2. UpForEach
    BY <1>1, FS_EmptySet DEF Init, UpForEach
<1>3. TypeOK
    BY ExchangeAssumption DEF Init, TypeOK, Steps, Contexts
<1> QED BY <1>2, <1>3, ExchangeAssumption
        DEF Init, Invariant, SetUpFound, CodeUnderOwnSettings

LEMMA NextInvariant == Invariant /\ [Next]_vars => Invariant'
<1> SUFFICES ASSUME Invariant, [Next]_vars PROVE Invariant'
    OBVIOUS
<1> USE ExchangeAssumption DEF Invariant
<1>1. ASSUME NEW t \in Threads, Initialize(t) PROVE Invariant'
    <2>1. Goto(t, "configure") /\ pc[t] \notin Inside
        BY <1>1 DEF Initialize, Inside
    <2>2. Cardinality(ThreadsInside') = Cardinality(ThreadsInside) + 1
        BY <2>1, Enters DEF Inside
    <2>3. UpForEach'
        BY <1>1, <2>2, CountTyped DEF Initialize, UpForEach, TypeOK
    <2>4. TypeOK'
        BY <1>1 DEF Initialize, Goto, TypeOK, Steps, Inside
    <2>5. SetUpFound' /\ CodeUnderOwnSettings'
        BY <1>1 DEF Initialize, Goto, TypeOK, SetUpFound, CodeUnderOwnSettings
    <2> QED BY <2>3, <2>4, <2>5
<1>2. ASSUME NEW t \in Threads, InitializeClient(t) PROVE Invariant'
    <2>1. ThreadsInside' = ThreadsInside
        BY <1>2, Remains DEF InitializeClient, Inside
    <2>2. UpForEach'
        BY <1>2, <2>1 DEF InitializeClient, UpForEach
    <2>3. TypeOK'
        BY <1>2 DEF InitializeClient, NewDefault, Goto, TypeOK, Steps, Inside, Contexts
    <2>4. SetUpFound' /\ CodeUnderOwnSettings'
        BY <1>2 DEF InitializeClient, NewDefault, Goto, TypeOK, SetUpFound,
                    CodeUnderOwnSettings
    <2> QED BY <2>2, <2>3, <2>4
<1>3. ASSUME NEW t \in Threads, OpenSession(t) PROVE Invariant'
    <2>1. ThreadsInside' = ThreadsInside
        BY <1>3, Remains DEF OpenSession, Inside
    <2>2. UpForEach'
        BY <1>3, <2>1 DEF OpenSession, UpForEach
    <2>3. TypeOK'
        BY <1>3 DEF OpenSession, TakeContext, Goto, TypeOK, Steps, Inside, Contexts
    <2>4. default' # Configured \/ default \notin Threads
        BY <1>3 DEF OpenSession, TakeContext
    <2>5. SetUpFound' /\ CodeUnderOwnSettings'
        BY <1>3, <2>4 DEF OpenSession, TakeContext, Goto, TypeOK, SetUpFound,
                    CodeUnderOwnSettings, Contexts
    <2> QED BY <2>2, <2>3, <2>5
<1>4. ASSUME NEW t \in Threads, ExchangeCode(t) PROVE Invariant'
    <2>1. ThreadsInside' = ThreadsInside
        BY <1>4, Remains DEF ExchangeCode, Inside
    <2>2. UpForEach'
        BY <1>4, <2>1 DEF ExchangeCode, UpForEach
    <2>3. TypeOK'
        BY <1>4 DEF ExchangeCode, Goto, TypeOK, Steps, Inside
    <2>4. SetUpFound' /\ CodeUnderOwnSettings'
        BY <1>4 DEF ExchangeCode, Goto, TypeOK, SetUpFound, CodeUnderOwnSettings
    <2> QED BY <2>2, <2>3, <2>4
<1>5. ASSUME NEW t \in Threads, FailToken(t) PROVE Invariant'
    <2>1. Goto(t, "idle") /\ pc[t] \in Inside
        BY <1>5 DEF FailToken, GivesUp, Return, Inside
    <2>2. Cardinality(ThreadsInside') = Cardinality(ThreadsInside) - 1
        BY <2>1, Leaves DEF Inside
    <2>3. initialized' = initialized
        BY <1>5 DEF FailToken, GivesUp
    <2>4. UpForEach'
        BY <2>2, <2>3, CountTyped DEF UpForEach, TypeOK
    <2>5. TypeOK'
        BY <1>5 DEF FailToken, GivesUp, Return, Goto, TypeOK, Steps
    <2>6. SetUpFound' /\ CodeUnderOwnSettings'
        BY <1>5 DEF FailToken, GivesUp, Return, Goto, TypeOK, SetUpFound,
                    CodeUnderOwnSettings
    <2> QED BY <2>4, <2>5, <2>6
<1>6. ASSUME NEW t \in Threads, Uninitialize(t) PROVE Invariant'
    <2>1. Goto(t, "userInfoSession") /\ pc[t] \in Inside
        BY <1>6 DEF Uninitialize, Inside
    <2>2. /\ Cardinality(ThreadsInside') = Cardinality(ThreadsInside) - 1
          /\ Cardinality(ThreadsInside') \in Nat
        BY <2>1, Leaves DEF Inside
    <2>3. initialized' = initialized - 1
        BY <1>6 DEF Uninitialize
    <2>4. UpForEach' /\ initialized' \in Nat
        BY <2>2, <2>3, CountTyped DEF UpForEach, TypeOK
    <2>5. TypeOK'
        BY <1>6, <2>4 DEF Uninitialize, Goto, TypeOK, Steps
    <2>6. SetUpFound' /\ CodeUnderOwnSettings'
        BY <1>6 DEF Uninitialize, Goto, TypeOK, SetUpFound, Inside,
                    CodeUnderOwnSettings
    <2> QED BY <2>4, <2>5, <2>6
<1>7. ASSUME NEW t \in Threads, OpenUserInfoSession(t) PROVE Invariant'
    <2>1. ThreadsInside' = ThreadsInside
        BY <1>7, Remains DEF OpenUserInfoSession, Inside
    <2>2. UpForEach'
        BY <1>7, <2>1 DEF OpenUserInfoSession, UpForEach
    <2>3. TypeOK'
        BY <1>7 DEF OpenUserInfoSession, TakeContext, Goto, TypeOK, Steps, Contexts
    <2>4. SetUpFound' /\ CodeUnderOwnSettings'
        BY <1>7 DEF OpenUserInfoSession, TakeContext, Goto, TypeOK, SetUpFound,
                    CodeUnderOwnSettings, Contexts
    <2> QED BY <2>2, <2>3, <2>4
<1>8. ASSUME NEW t \in Threads, FetchResult(t) \/ FailUserInfo(t) PROVE Invariant'
    <2>1. Return(t) /\ pc[t] \notin Inside
        BY <1>8 DEF FetchResult, FailUserInfo, Inside
    <2>2. UNCHANGED <<initialized, default, interrupted, exchanges>>
        BY <1>8 DEF FetchResult, FailUserInfo
    <2>3. ThreadsInside' = ThreadsInside
        BY <2>1, Remains DEF Return, Inside
    <2>4. UpForEach'
        BY <2>2, <2>3 DEF UpForEach
    <2>5. TypeOK'
        BY <2>1, <2>2 DEF Return, Goto, TypeOK, Steps
    <2>6. SetUpFound' /\ CodeUnderOwnSettings'
        BY <2>1, <2>2 DEF Return, Goto, TypeOK, SetUpFound, CodeUnderOwnSettings
    <2> QED BY <2>4, <2>5, <2>6
<1>9. ASSUME UNCHANGED vars PROVE Invariant'
    BY <1>9 DEF vars, TypeOK, UpForEach, ThreadsInside, SetUpFound, CodeUnderOwnSettings
<1> QED BY <1>1, <1>2, <1>3, <1>4, <1>5, <1>6, <1>7, <1>8, <1>9 DEF Next, Run, Quiescent

(* The invariant of every reachable state. *)
THEOREM InvariantHolds == Spec => []Invariant
BY InitInvariant, NextInvariant, PTL DEF Spec

(* Every reachable state is well typed: in particular the library is never *)
(* taken down more often than it was set up.                               *)
THEOREM ExchangeTyped == Spec => []TypeOK
<1>1. Invariant => TypeOK
    BY DEF Invariant
<1> QED BY <1>1, InvariantHolds, PTL

(* Whatever the threads do, none takes the library down under an exchange  *)
(* that is between its two calls.                                          *)
THEOREM UpWhileInsideHolds == Spec => []UpWhileInside
<1>1. Invariant => UpWhileInside
    <2> SUFFICES ASSUME Invariant, NEW t \in Threads, pc[t] \in Inside PROVE initialized > 0
        BY DEF UpWhileInside
    <2>1. t \in ThreadsInside /\ IsFiniteSet(ThreadsInside)
        BY ExchangeAssumption, FS_Subset DEF ThreadsInside
    <2>2. Cardinality(ThreadsInside) # 0 /\ Cardinality(ThreadsInside) \in Nat
        BY <2>1, FS_EmptySet, FS_CardinalityType
    <2> QED BY <2>2 DEF Invariant, UpForEach, TypeOK
<1> QED BY <1>1, InvariantHolds, PTL

(* A code goes out under a context of the manager's own only after another *)
(* exchange took the manager down.                                         *)
THEOREM CodeUnderOwnSettingsHolds == Spec => []CodeUnderOwnSettings
<1>1. Invariant => CodeUnderOwnSettings
    BY DEF Invariant
<1> QED BY <1>1, InvariantHolds, PTL

=============================================================================
