-------------------------- MODULE GtbsClientProofs --------------------------
(***************************************************************************)
(* Proofs about the call store, for every set of call indexes and every    *)
(* counter width, and about the GTBS session and its commands on top of    *)
(* it, for any sequence of calls and any number of commands, losses and    *)
(* signals.                                                                *)
(*                                                                         *)
(* The token properties rest on the circle 1..MaxCounter on which the      *)
(* counter moves from the seed: the tokens issued so far are exactly       *)
(* within the arc it has covered, and within one lap the next ones are     *)
(* beyond it.                                                              *)
(***************************************************************************)
EXTENDS GtbsClient, FiniteSetTheorems, TLAPS

(* The arc the counter has covered since the seed.                         *)
Covered(t, c) == IF c >= Seed THEN Seed < t /\ t <= c ELSE t > Seed \/ t <= c

TokenInv ==
    /\ \A i \in Live(calls) : calls[i].token \in issued
    /\ \A t \in issued : Covered(t, tokens)
    /\ LiveTokensDistinct

----------------------------------------------------------------------------
(* A set of call indexes is finite and smaller than the counter's range.   *)
LEMMA IndexSubsets ==
    ASSUME NEW S \in SUBSET Index
    PROVE  /\ IsFiniteSet(S)
           /\ Cardinality(S) \in Nat
           /\ Cardinality(S) + 1 < MaxCounter
<1>1. IsFiniteSet(Index)
  <2>1. 1 \in Int /\ 255 \in Int
    OBVIOUS
  <2>2. IsFiniteSet(1..255)
    BY <2>1, FS_Interval, ZenonT(60)
  <2>. QED
    BY <2>2, IndexAssumption, FS_Subset, ZenonT(60)
<1>2. IsFiniteSet(S) /\ Cardinality(S) <= Cardinality(Index)
  BY <1>1, FS_Subset
<1>. QED
  BY <1>1, <1>2, FS_CardinalityType, CounterAssumption

(* Ranks within a set of indexes count from 1 and differ.                  *)
LEMMA RankProperties ==
    ASSUME NEW S \in SUBSET Index
    PROVE  /\ \A i \in S : Rank(i, S) \in 1..Cardinality(S)
           /\ \A i, j \in S : i < j => Rank(i, S) < Rank(j, S)
<1>. DEFINE Below(i) == {k \in S : k <= i}
<1>1. ASSUME NEW i \in S
      PROVE  Rank(i, S) \in 1..Cardinality(S)
  <2>1. Below(i) \subseteq S /\ i \in Below(i)
    BY IndexAssumption
  <2>2. IsFiniteSet(Below(i)) /\ Cardinality(Below(i)) <= Cardinality(S)
    BY <2>1, IndexSubsets, FS_Subset
  <2>3. Cardinality(Below(i)) # 0
    BY <2>1, <2>2, FS_EmptySet
  <2>. QED
    BY <2>2, <2>3, IndexSubsets, FS_CardinalityType DEF Rank
<1>2. ASSUME NEW i \in S, NEW j \in S, i < j
      PROVE  Rank(i, S) < Rank(j, S)
  <2>1. Below(i) \subseteq Below(j) /\ j \in Below(j) /\ j \notin Below(i)
    <3>1. S \subseteq Int
      BY IndexAssumption
    <3>2. j \in Below(j) /\ j \notin Below(i)
      BY <1>2, <3>1
    <3>3. ASSUME NEW k \in Below(i)
          PROVE  k \in Below(j)
      BY <1>2, <3>1
    <3>. QED
      BY <3>2, <3>3
  <2>2. IsFiniteSet(Below(j))
    BY IndexSubsets, FS_Subset
  <2>3. /\ IsFiniteSet(Below(i))
        /\ Cardinality(Below(i)) <= Cardinality(Below(j))
        /\ Cardinality(Below(i)) = Cardinality(Below(j)) => Below(i) = Below(j)
    BY <2>1, <2>2, FS_Subset
  <2>. QED
    BY <2>1, <2>2, <2>3, FS_CardinalityType DEF Rank
<1>. QED
  BY <1>1, <1>2

(* nextToken never leaves the circle: neither 0 nor a number beyond uint64 *)
(* is handed out, for up to as many new calls as there are indexes.        *)
LEMMA NthTokenType ==
    ASSUME NEW t \in 1..MaxCounter, NEW n \in Nat, n + 1 < MaxCounter
    PROVE  NthToken(t, n) \in 1..MaxCounter
BY SMTT(60), CounterAssumption DEF NthToken, Advance, StepsToSeed

(* Within one lap the n-th next token is beyond the arc covered, the arc   *)
(* grows to reach it, and different ranks give different tokens.           *)
LEMMA NthTokenIsNew ==
    ASSUME NEW t \in 1..MaxCounter, NEW n \in Nat, NEW m \in Nat,
           n < StepsToSeed(t), m <= n, m >= 1, n + 1 < MaxCounter
    PROVE  /\ ~Covered(NthToken(t, m), t)
           /\ Covered(NthToken(t, m), NthToken(t, n))
BY CounterAssumption DEF NthToken, Advance, StepsToSeed, Covered

(* What the arc covers stays covered when nextToken moves on: a token that *)
(* was handed out is not forgotten.                                        *)
LEMMA CoveredGrows ==
    ASSUME NEW t \in 1..MaxCounter, NEW n \in Nat, NEW u \in 1..MaxCounter,
           n < StepsToSeed(t), n + 1 < MaxCounter, Covered(u, t)
    PROVE  Covered(u, NthToken(t, n))
BY CounterAssumption DEF NthToken, Advance, StepsToSeed, Covered

(* Two new calls of one Apply get different tokens.                        *)
LEMMA NthTokenInjective ==
    ASSUME NEW t \in 1..MaxCounter, NEW n \in Nat, NEW m \in Nat,
           n < StepsToSeed(t), m < n, n + 1 < MaxCounter
    PROVE  NthToken(t, m) # NthToken(t, n)
BY CounterAssumption DEF NthToken, Advance, StepsToSeed

----------------------------------------------------------------------------
(* Type correctness: the store only ever holds well-formed calls whose     *)
(* tokens are nonzero uint64 values (state.go Apply, nextToken).           *)
THEOREM TypeCorrect == Spec => []TypeOK
<1>1. Init => TypeOK
  BY CounterAssumption DEF Init, TypeOK, Call
<1>2. TypeOK /\ [Next]_vars => TypeOK'
  <2>. SUFFICES ASSUME TypeOK, [Next]_vars
                PROVE  TypeOK'
    OBVIOUS
  <2>. USE CounterAssumption
  <2>0. Advance(sequence, 1) \in 1..MaxCounter
    <3>1. MaxCounter > 1
      BY SMTT(60), IndexSubsets
    <3>. QED
      BY <3>1 DEF Advance, TypeOK
  <2>1. ASSUME NEW value \in CallStateValue, Apply(value)
        PROVE  TypeOK'
    <3>1. Fresh(value) \in SUBSET Index
      BY DEF Fresh, Live
    <3>2. \A n \in 0..Cardinality(Fresh(value)) : NthToken(tokens, n) \in 1..MaxCounter
      BY SMTT(60), <3>1, IndexSubsets, NthTokenType DEF TypeOK
    <3>3. \A i \in Fresh(value) : Rank(i, Fresh(value)) \in 0..Cardinality(Fresh(value))
      BY <3>1, RankProperties, IndexSubsets
    <3>4. \A i \in Index : ApplyCalls(value)[i] \in Call
      <4>. TAKE i \in Index
      <4>1. CASE value[i].state = "None"
        BY SMTT(60), <4>1 DEF ApplyCalls, Call
      <4>2. CASE value[i].state # "None"
        <5>1. value[i].state \in States /\ value[i].outgoing \in BOOLEAN
          BY <4>2 DEF CallStateValue, Report, NoReport
        <5>2. calls[i].state # "None" => calls[i].token \in 1..MaxCounter
          BY SMTT(60) DEF TypeOK, Call, NoCall
        <5>3. calls[i].state = "None" =>
                NthToken(tokens, Rank(i, Fresh(value))) \in 1..MaxCounter
          BY ZenonT(60), <3>2, <3>3, <4>2 DEF Fresh, Live
        <5>. QED
          BY SMTT(60), <4>2, <5>1, <5>2, <5>3 DEF ApplyCalls, Call
      <4>. QED
        BY <4>1, <4>2
    <3>5. calls' \in [Index -> Call]
      BY SMTT(60), <2>1, <3>4 DEF Apply, ApplyCalls
    <3>6. claimed' \in [Index -> 0..MaxCounter]
      BY SMTT(60), <2>1 DEF Apply, KeptClaims, TypeOK
    <3>7. identities' \in [Index -> URIs \cup {NoURI}]
      BY <2>1 DEF Apply, KeptIdentities, TypeOK
    <3>8. tokens' \in 1..MaxCounter
      BY SMTT(60), <2>1, <3>1, <3>2, IndexSubsets DEF Apply
    <3>9. \A i \in Fresh(value) : ApplyCalls(value)[i].token \in 1..MaxCounter
      BY <3>2, <3>3 DEF Fresh, Live, ApplyCalls
    <3>10. issued' \subseteq 1..MaxCounter
      BY ZenonT(60), <2>1, <3>9 DEF Apply, TypeOK
    <3>. QED
      BY Zenon, <2>0, <2>1, <3>5, <3>6, <3>7, <3>8, <3>10 DEF Apply, TypeOK
  <2>2. ASSUME NEW i \in Index, NEW uri \in URIs \cup {NoURI}, ApplyIncomingCall(i, uri)
        PROVE  TypeOK'
    BY <2>0, <2>2 DEF ApplyIncomingCall, TypeOK
  <2>3. ASSUME NEW i \in Index, NEW t \in issued, ClaimCall(i, t)
        PROVE  TypeOK'
    BY <2>3 DEF ClaimCall, TypeOK
  <2>4. CASE UNCHANGED vars
    BY Zenon, <2>4 DEF vars, TypeOK
  <2>. QED
    BY <2>1, <2>2, <2>3, <2>4 DEF Next
<1>. QED
  BY <1>1, <1>2, PTL DEF Spec

----------------------------------------------------------------------------
(* What one Apply does to the tokens: calls that stay keep theirs, and the *)
(* new ones get pairwise different tokens from beyond the covered arc.     *)
LEMMA ApplyTokens ==
    ASSUME TypeOK, NEW value \in CallStateValue, WithinOneLap(value)
    PROVE  LET next == ApplyCalls(value)
               c    == NthToken(tokens, Cardinality(Fresh(value))) IN
           /\ \A i \in Fresh(value) : /\ ~Covered(next[i].token, tokens)
                                      /\ Covered(next[i].token, c)
           /\ \A i, j \in Fresh(value) : next[i].token = next[j].token => i = j
           /\ \A i \in Live(next) \ Fresh(value) :
                 i \in Live(calls) /\ next[i].token = calls[i].token
           /\ \A t \in 1..MaxCounter : Covered(t, tokens) => Covered(t, c)
<1>. DEFINE F == Fresh(value)
            n == Cardinality(F)
<1>1. /\ F \in SUBSET Index
      /\ n \in Nat
      /\ n + 1 < MaxCounter
      /\ n < StepsToSeed(tokens)
      /\ tokens \in 1..MaxCounter
  BY Zenon, IndexSubsets DEF Fresh, Live, WithinOneLap, TypeOK
<1>2. \A i \in F : /\ ApplyCalls(value)[i].token = NthToken(tokens, Rank(i, F))
                   /\ Rank(i, F) \in 1..n
  BY SMTT(60), <1>1, RankProperties DEF Fresh, Live, ApplyCalls
<1>3. ASSUME NEW i \in F
      PROVE  /\ ~Covered(ApplyCalls(value)[i].token, tokens)
             /\ Covered(ApplyCalls(value)[i].token, NthToken(tokens, n))
  <2>1. Rank(i, F) \in Nat /\ Rank(i, F) >= 1 /\ Rank(i, F) <= n
    BY <1>1, <1>2
  <2>. HIDE DEF F, n
  <2>. QED
    BY SMTT(60), <1>1, <1>2, <2>1, NthTokenIsNew
<1>4. ASSUME NEW i \in F, NEW j \in F, i < j
      PROVE  ApplyCalls(value)[i].token # ApplyCalls(value)[j].token
  <2>1. /\ Rank(i, F) \in Nat /\ Rank(j, F) \in Nat
        /\ Rank(i, F) < Rank(j, F)
        /\ Rank(j, F) < StepsToSeed(tokens)
        /\ Rank(j, F) + 1 < MaxCounter
    <3>1. Rank(i, F) < Rank(j, F)
      BY <1>1, <1>4, RankProperties
    <3>2. StepsToSeed(tokens) \in Int
      BY <1>1, CounterAssumption DEF StepsToSeed
    <3>. QED
      BY SMTT(60), <1>1, <1>2, <3>1, <3>2, CounterAssumption
  <2>. HIDE DEF F, n
  <2>. QED
    BY SMTT(60), <1>1, <1>2, <2>1, NthTokenInjective
<1>5. \A i, j \in F : ApplyCalls(value)[i].token = ApplyCalls(value)[j].token => i = j
  <2>0. Index \subseteq Int
    BY IndexAssumption
  <2>. HIDE DEF F
  <2>1. F \subseteq Int
    BY Zenon, <1>1, <2>0
  <2>. QED
    BY <1>4, <2>1
<1>6. \A i \in Live(ApplyCalls(value)) \ F :
         i \in Live(calls) /\ ApplyCalls(value)[i].token = calls[i].token
  BY DEF Live, Fresh, ApplyCalls, NoCall
<1>7. \A t \in 1..MaxCounter : Covered(t, tokens) => Covered(t, NthToken(tokens, n))
  <2>. HIDE DEF n, F
  <2>. QED
    BY <1>1, CoveredGrows
<1>. QED
  BY SMTT(60), <1>3, <1>5, <1>6, <1>7

(* The token invariant is inductive.                                       *)
LEMMA TokenInvStep == TypeOK /\ TokenInv /\ [Next]_vars => TokenInv'
<1>. SUFFICES ASSUME TypeOK, TokenInv, [Next]_vars
              PROVE  TokenInv'
  OBVIOUS
<1>1. ASSUME NEW value \in CallStateValue, WithinOneLap(value), Apply(value)
      PROVE  TokenInv'
  <2>. DEFINE next == ApplyCalls(value)
              F == Fresh(value)
  <2>1. /\ calls' = next
        /\ tokens' = NthToken(tokens, Cardinality(F))
        /\ issued' = issued \cup {next[i].token : i \in F}
    BY Zenon, <1>1 DEF Apply
  <2>2. /\ \A i \in F : /\ ~Covered(next[i].token, tokens)
                        /\ Covered(next[i].token, tokens')
        /\ \A i, j \in F : next[i].token = next[j].token => i = j
        /\ \A i \in Live(next) \ F : i \in Live(calls) /\ next[i].token = calls[i].token
        /\ \A t \in 1..MaxCounter : Covered(t, tokens) => Covered(t, tokens')
    BY Zenon, <1>1, <2>1, ApplyTokens
  <2>. HIDE DEF next, F
  <2>3. \A i \in Live(next) : next[i].token \in issued'
    BY SMTT(60), <2>1, <2>2 DEF TokenInv
  <2>4. ASSUME NEW t \in issued'
        PROVE  Covered(t, tokens')
    <3>1. CASE t \in issued
      BY SMTT(60), <2>2, <3>1 DEF TokenInv, TypeOK
    <3>2. CASE \E i \in F : t = next[i].token
      BY Zenon, <2>2, <3>2
    <3>. QED
      BY SMTT(60), <2>1, <2>4, <3>1, <3>2
  <2>5. \A i, j \in Live(next) : next[i].token = next[j].token => i = j
    BY <2>1, <2>2 DEF TokenInv, LiveTokensDistinct
  <2>. QED
    BY Zenon, <2>1, <2>3, <2>4, <2>5 DEF TokenInv, LiveTokensDistinct, Live
<1>2. ASSUME UNCHANGED <<calls, tokens, issued>>
      PROVE  TokenInv'
  BY <1>2 DEF TokenInv, LiveTokensDistinct, Live
<1>. QED
  BY <1>1, <1>2 DEF Next, ApplyIncomingCall, ClaimCall, vars

(* The token invariant holds in every state of the store (NewStore, Apply, *)
(* ApplyIncomingCall and ClaimCall keep it).                               *)
LEMMA TokenInvariant == Spec => []TokenInv
<1>1. Init => TokenInv
  BY DEF Init, TokenInv, LiveTokensDistinct, Live, NoCall
<1>. QED
  BY <1>1, TypeCorrect, TokenInvStep, PTL DEF Spec

(* Two live calls never have the same token: what state.go's Apply hands   *)
(* out identifies a call.                                                  *)
THEOREM TokensIdentifyCalls == Spec => []LiveTokensDistinct
<1>1. TokenInv => LiveTokensDistinct
  BY DEF TokenInv
<1>. QED
  BY <1>1, TokenInvariant, PTL

(* A token is never handed out twice in the store's lifetime, so a command *)
(* or claim for an ended call cannot act on a later one.                   *)
THEOREM TokensStayRetired == Spec => TokensAreNeverReissued
<1>1. TypeOK /\ TokenInv /\ [Next]_vars =>
        [\A i \in Index :
            (calls'[i].token # 0 /\ calls'[i].token # calls[i].token)
               => calls'[i].token \notin issued]_vars
  <2>. SUFFICES ASSUME TypeOK, TokenInv, Next, NEW i \in Index,
                       calls'[i].token # 0, calls'[i].token # calls[i].token
                PROVE  calls'[i].token \notin issued
    OBVIOUS
  <2>1. PICK value \in CallStateValue : WithinOneLap(value) /\ Apply(value)
    BY DEF Next, ApplyIncomingCall, ClaimCall
  <2>2. calls' = ApplyCalls(value)
    BY Zenon, <2>1 DEF Apply
  <2>3. i \in Live(ApplyCalls(value))
    BY Zenon, <2>2 DEF Live, ApplyCalls, NoCall, CallStateValue, Report
  <2>4. i \in Fresh(value)
    BY Zenon, <2>1, <2>2, <2>3, ApplyTokens
  <2>5. ~Covered(calls'[i].token, tokens)
    BY <2>1, <2>2, <2>4, ApplyTokens
  <2>. QED
    BY <2>5 DEF TokenInv
<1>. QED
  BY <1>1, TypeCorrect, TokenInvariant, PTL DEF Spec, TokensAreNeverReissued

(* A claim always belongs to the call now at its index: Apply drops the    *)
(* claims of ended calls and ClaimCall checks the token, so an Accept for  *)
(* one call never opens the media path for another.                        *)
THEOREM ClaimsStayWithTheirCall == Spec => []ClaimsAreForLiveCalls
<1>1. Init => ClaimsAreForLiveCalls
  BY DEF Init, ClaimsAreForLiveCalls
<1>2. TypeOK /\ ClaimsAreForLiveCalls /\ [Next]_vars => ClaimsAreForLiveCalls'
  <2>. SUFFICES ASSUME TypeOK, ClaimsAreForLiveCalls, [Next]_vars
                PROVE  ClaimsAreForLiveCalls'
    OBVIOUS
  <2>1. ASSUME NEW value \in CallStateValue, Apply(value)
        PROVE  ClaimsAreForLiveCalls'
    BY <2>1 DEF Apply, KeptClaims, ClaimsAreForLiveCalls
  <2>2. ASSUME NEW i \in Index, NEW uri \in URIs \cup {NoURI}, ApplyIncomingCall(i, uri)
        PROVE  ClaimsAreForLiveCalls'
    BY <2>2 DEF ApplyIncomingCall, ClaimsAreForLiveCalls
  <2>3. ASSUME NEW i \in Index, NEW t \in issued, ClaimCall(i, t)
        PROVE  ClaimsAreForLiveCalls'
    BY <2>3 DEF ClaimCall, ClaimsAreForLiveCalls, TypeOK
  <2>4. CASE UNCHANGED vars
    BY <2>4 DEF vars, ClaimsAreForLiveCalls
  <2>. QED
    BY ZenonT(60), <2>1, <2>2, <2>3, <2>4 DEF Next
<1>. QED
  BY <1>1, <1>2, TypeCorrect, PTL DEF Spec

(* A step that changes what the next snapshot says changes its number, so  *)
(* the peer, which discards a repeated number, never discards news.        *)
THEOREM NewsIsRenumbered == Spec => ChangedSnapshotIsRenumbered
<1>1. TypeOK /\ [Next]_vars => [SnapshotCalls' # SnapshotCalls => sequence' # sequence]_vars
  <2>. SUFFICES ASSUME TypeOK, Next, SnapshotCalls' # SnapshotCalls
                PROVE  sequence' # sequence
    OBVIOUS
  <2>1. Advance(sequence, 1) # sequence
    <3>1. MaxCounter > 1 /\ MaxCounter \in Nat
      BY IndexSubsets, CounterAssumption
    <3>. QED
      BY <3>1 DEF Advance, TypeOK
  <2>2. sequence' = Advance(sequence, 1) \/ UNCHANGED <<calls, identities>>
    BY DEF Next, Apply, ApplyIncomingCall, ClaimCall
  <2>3. UNCHANGED <<calls, identities>> => SnapshotCalls' = SnapshotCalls
    BY DEF SnapshotCalls, Live
  <2>. QED
    BY <2>1, <2>2, <2>3
<1>. QED
  BY <1>1, TypeCorrect, PTL DEF Spec, ChangedSnapshotIsRenumbered

----------------------------------------------------------------------------
(* The session and its commands.                                           *)

Keys == Opcodes \X Index

Executing == command.pc \in {"write", "undo"}

(* Tokens and indexes are only compared here, so nothing is said of them.  *)
IsCommand(c) ==
    /\ c = [pc |-> c.pc, op |-> c.op, index |-> c.index, token |-> c.token, live |-> c.live]
    /\ c.live \in BOOLEAN

IsPending(p) == p = [key \in Keys |-> p[key]]

(* While no session is up, the only thing that can be waiting for a result *)
(* is the command that is being executed, whose connection is closed, so   *)
(* that it fails and takes its entry back.                                 *)
PendingInv ==
    /\ IsCommand(command)
    /\ IsPending(pending) /\ pendingOriginate \in BOOLEAN
    /\ phase # "up" =>
          /\ ~command.live
          /\ \A key \in Keys : pending[key] # 0 =>
                /\ Executing /\ command.op # "Originate"
                /\ key = <<command.op, command.index>> /\ pending[key] = command.token
          /\ pendingOriginate => Executing /\ command.op = "Originate"

----------------------------------------------------------------------------
(* A command that moves on is still a command.                             *)
LEMMA CommandMoves ==
    ASSUME IsCommand(command),
           NEW pc,
           CommandTo(pc)
    PROVE  /\ IsCommand(command)' /\ command'.pc = pc
           /\ command'.op = command.op /\ command'.index = command.index
           /\ command'.token = command.token /\ command'.live = command.live
BY DEF IsCommand, CommandTo

(* The absence of a command is one too, with no connection.                *)
LEMMA NoCommandType == IsCommand(NoCommand) /\ ~NoCommand.live /\ NoCommand.pc = "none"
BY DEF NoCommand, IsCommand

(* The end of a session leaves nothing pending.                            *)
LEMMA EndClears ==
    ASSUME PendingInv, EndSession
    PROVE  PendingInv'
<1>1. IsCommand(command)' /\ command'.live = FALSE
  BY Zenon DEF EndSession, PendingInv, IsCommand
<1>2. pending' = [key \in Keys |-> 0] /\ pendingOriginate' = FALSE
  BY DEF EndSession, ClearSession, NonePending, Keys
<1>. QED
  BY Zenon, <1>1, <1>2 DEF PendingInv, IsPending

(* The session goroutine: bringing a session up leaves commands alone, and *)
(* publishing it, or ending it, clears whatever was pending.               *)
LEMMA SessionKeepsPending == PendingInv /\ (SessionStep \/ BusLost) => PendingInv'
<1>. SUFFICES ASSUME PendingInv, SessionStep \/ BusLost
              PROVE  PendingInv'
  OBVIOUS
<1>1. CASE Connect \/ CheckBearer \/ ReadCallState \/ ApplyCallState
  <2>1. /\ phase # "up" /\ UNCHANGED <<pending, pendingOriginate, command>>
    BY <1>1 DEF Connect, CheckBearer, ReadCallState, ApplyCallState, Unestablished, commandVars
  <2>. QED
    BY Zenon, <2>1 DEF PendingInv, Executing
<1>2. CASE Publish
  <2>1. /\ phase' = "up" /\ UNCHANGED command
        /\ pending' = [key \in Keys |-> 0] /\ pendingOriginate' = FALSE
    BY <1>2 DEF Publish, commandVars, ClearSession, NonePending, Keys
  <2>. QED
    BY Zenon, <2>1 DEF PendingInv, IsPending
<1>3. CASE HandleSignal
  <2>1. CASE EndSession
    BY Zenon, <2>1, EndClears
  <2>2. CASE ~EndSession
    <3>1. phase = "up" /\ UNCHANGED <<phase, command>>
      BY <1>3, <2>2 DEF HandleSignal
    <3>2. \/ UNCHANGED <<pending, pendingOriginate>>
          \/ UNCHANGED pending /\ pendingOriginate' = FALSE
          \/ /\ UNCHANGED pendingOriginate
             /\ \E key : pending' = [pending EXCEPT ![key] = 0]
      BY <1>3, <2>2 DEF HandleSignal, HandleControlResult
    <3>3. IsPending(pending') /\ pendingOriginate' \in BOOLEAN
      <4>. IsPending(pending) /\ pendingOriginate \in BOOLEAN
        BY DEF PendingInv
      <4>1. CASE UNCHANGED <<pending, pendingOriginate>>
        BY <4>1
      <4>2. CASE UNCHANGED pending /\ pendingOriginate' = FALSE
        BY Zenon, <4>2
      <4>3. CASE UNCHANGED pendingOriginate /\ \E key : pending' = [pending EXCEPT ![key] = 0]
        <5>1. PICK key : pending' = [pending EXCEPT ![key] = 0]
          BY Zenon, <4>3
        <5>2. IsPending(pending')
          BY <5>1 DEF IsPending
        <5>. QED
          BY <4>3, <5>2
      <4>. QED
        BY Zenon, <3>2, <4>1, <4>2, <4>3
    <3>. QED
      BY <3>1, <3>3 DEF PendingInv
  <2>. QED
    BY <2>1, <2>2
<1>4. CASE BusLost
  BY <1>4, EndClears DEF BusLost
<1>. QED
  BY <1>1, <1>2, <1>3, <1>4 DEF SessionStep

(* A command with a closed connection cannot finish at its write.          *)
LEMMA CommandKeepsPending == PendingInv /\ CommandStep => PendingInv'
<1>. SUFFICES ASSUME PendingInv, CommandStep
              PROVE  PendingInv'
  OBVIOUS
<1>0. /\ IsCommand(command) /\ IsPending(pending) /\ pendingOriginate \in BOOLEAN
  BY DEF PendingInv
<1>1. CASE CommandValidates
  <2>1. /\ command.pc = "validate" /\ UNCHANGED <<phase, pending, pendingOriginate>>
        /\ CommandTo("connection") \/ command' = NoCommand
    BY Zenon, <1>1 DEF CommandValidates, CommandDone, sessionVars
  <2>2. IsCommand(command)' /\ (phase # "up" => ~command'.live)
    BY <1>0, <2>1, CommandMoves, NoCommandType DEF PendingInv
  <2>. QED
    BY <2>1, <2>2 DEF PendingInv, Executing
<1>2. CASE CommandTakesConnection
  <2>1. /\ command.pc = "connection" /\ UNCHANGED <<phase, pending, pendingOriginate>>
        /\ \/ phase = "up" /\ command' = [command EXCEPT !.pc = "register", !.live = TRUE]
           \/ command' = NoCommand
    BY <1>2 DEF CommandTakesConnection, CommandDone, sessionVars
  <2>2. IsCommand(command)' /\ (phase # "up" => ~command'.live)
    <3>1. CASE command' = [command EXCEPT !.pc = "register", !.live = TRUE]
      <4>2. command' = [pc |-> "register", op |-> command.op, index |-> command.index,
                        token |-> command.token, live |-> TRUE]
        BY Zenon, <1>0, <3>1 DEF IsCommand
      <4>3. IsCommand(command)'
        BY <4>2 DEF IsCommand
      <4>. QED
        BY <2>1, <4>2, <4>3, NoCommandType
    <3>. QED
      BY <2>1, <3>1, NoCommandType
  <2>. QED
    BY <2>1, <2>2 DEF PendingInv, Executing
<1>3. CASE CommandRegisters
  <2>1. command.pc = "register" /\ UNCHANGED phase
    BY <1>3 DEF CommandRegisters
  <2>2. phase # "up" => ~pendingOriginate /\ \A key \in Keys : pending[key] = 0
    BY Zenon, <2>1 DEF PendingInv, Executing
  <2>3. CASE command.op = "Originate"
    <3>1. /\ pendingOriginate' = TRUE /\ UNCHANGED pending
          /\ IF pendingOriginate THEN command' = NoCommand ELSE CommandTo("write")
      BY Zenon, <1>3, <2>3 DEF CommandRegisters, CommandDone
    <3>2. /\ IsCommand(command)'
          /\ phase # "up" => command'.pc = "write" /\ command'.op = "Originate" /\ ~command'.live
      BY Zenon, <1>0, <2>2, <2>3, <3>1, CommandMoves, NoCommandType DEF PendingInv
    <3>. QED
      BY <1>0, <2>1, <2>2, <3>1, <3>2 DEF PendingInv, Executing
  <2>4. CASE command.op # "Originate"
    <3>. DEFINE key == <<command.op, command.index>>
    <3>1. /\ pending' = [pending EXCEPT ![key] = command.token]
          /\ UNCHANGED pendingOriginate /\ CommandTo("write")
      BY <1>3, <2>4 DEF CommandRegisters
    <3>2. /\ IsCommand(command)' /\ command'.pc = "write" /\ command'.op = command.op
          /\ command'.index = command.index /\ command'.token = command.token
          /\ command'.live = command.live
      BY <1>0, <3>1, CommandMoves
    <3>4. /\ IsPending(pending')
          /\ \A k \in Keys : pending'[k] = IF k = key THEN command.token ELSE pending[k]
      BY SMTT(60), <1>0, <3>1 DEF IsPending
    <3>. QED
      BY ZenonT(60), <1>0, <2>1, <2>2, <2>4, <3>1, <3>2, <3>4 DEF PendingInv, Executing
  <2>. QED
    BY <2>3, <2>4
<1>4. CASE CommandWrites
  <2>1. /\ command.pc = "write" /\ UNCHANGED <<phase, pending, pendingOriginate>>
        /\ CommandTo("undo") \/ (command' = NoCommand /\ command.live)
    BY <1>4 DEF CommandWrites, CommandDone, sessionVars
  <2>2. CASE command' = NoCommand /\ command.live
    BY Zenon, <2>1, <2>2, NoCommandType DEF PendingInv
  <2>3. CASE CommandTo("undo")
    <3>1. /\ IsCommand(command)' /\ command'.pc = "undo"
          /\ command'.op = command.op /\ command'.index = command.index
          /\ command'.token = command.token /\ command'.live = command.live
      BY <1>0, <2>3, CommandMoves
    <3>. QED
      BY <2>1, <3>1 DEF PendingInv, Executing
  <2>. QED
    BY <2>1, <2>2, <2>3
<1>5. CASE CommandUndoes
  <2>1. /\ command.pc = "undo" /\ UNCHANGED phase /\ command' = NoCommand
    BY <1>5 DEF CommandUndoes, CommandDone
  <2>2. CASE command.op = "Originate"
    <3>1. pendingOriginate' = FALSE /\ UNCHANGED pending
      BY Zenon, <1>5, <2>2 DEF CommandUndoes
    <3>. QED
      BY ZenonT(60), <2>1, <2>2, <3>1, NoCommandType DEF PendingInv
  <2>3. CASE command.op # "Originate"
    <3>. DEFINE key == <<command.op, command.index>>
    <3>1. /\ pending' = [pending EXCEPT ![key] = IF @ = command.token THEN 0 ELSE @]
          /\ UNCHANGED pendingOriginate
      BY Zenon, <1>5, <2>3 DEF CommandUndoes
    <3>2. /\ IsPending(pending')
          /\ \A k \in Keys : pending'[k] =
                IF k = key /\ pending[k] = command.token THEN 0 ELSE pending[k]
      BY Zenon, <1>0, <3>1 DEF IsPending
    <3>. QED
      BY Zenon, <2>1, <2>3, <3>1, <3>2, NoCommandType DEF PendingInv
  <2>. QED
    BY <2>2, <2>3
<1>. QED
  BY <1>1, <1>2, <1>3, <1>4, <1>5 DEF CommandStep

(* The phone and the arrival of a command do not touch what is pending.    *)
LEMMA OthersKeepPending ==
    ASSUME PendingInv,
           \/ \E i \in Index : PhoneRings(i) \/ PhoneMoves(i)
           \/ PhoneAnswers \/ LinkLost \/ LinkBack \/ UNCHANGED clientVars
           \/ \E request \in Requests : CommandArrives(request)
    PROVE  PendingInv'
<1>1. CASE \E request \in Requests : CommandArrives(request)
  <2>1. PICK request \in Requests : CommandArrives(request)
    BY Zenon, <1>1
  <2>2. IsCommand(command)' /\ command'.live = FALSE
    BY Zenon, <2>1 DEF CommandArrives, IsCommand
  <2>3. command.pc = "none" /\ UNCHANGED <<phase, pending, pendingOriginate>>
    BY Zenon, <2>1, NoCommandType DEF CommandArrives, sessionVars
  <2>. QED
    BY Zenon, <2>2, <2>3 DEF PendingInv, Executing
<1>2. CASE ~\E request \in Requests : CommandArrives(request)
  <2>1. UNCHANGED <<phase, pending, pendingOriginate, command>>
    BY Zenon, <1>2 DEF PhoneRings, PhoneMoves, PhoneAnswers, LinkLost, LinkBack, clientVars,
                sessionVars, commandVars
  <2>. QED
    BY <2>1 DEF PendingInv, Executing
<1>. QED
  BY <1>1, <1>2

(* The README's "clears notification and command state" (client.go         *)
(* clearSession, Command): once no session is up and no command is half    *)
(* way, no entry and no originate waits for a result that cannot come,     *)
(* also when the command registered itself after the session had ended.    *)
THEOREM DisconnectClearsCommands == ClientSpec => []NothingPendingOutsideSession
<1>1. ClientInit => PendingInv
  BY Zenon, NoCommandType DEF ClientInit, PendingInv, IsPending, NonePending, Keys
<1>2. PendingInv /\ [ClientNext]_clientVars => PendingInv'
  BY SMTT(60), SessionKeepsPending, CommandKeepsPending, OthersKeepPending DEF ClientNext
<1>3. PendingInv => NothingPendingOutsideSession
  <2>. SUFFICES ASSUME PendingInv, phase = "idle", command = NoCommand
                PROVE  pending = NonePending /\ ~pendingOriginate
    BY SMTT(60) DEF NothingPendingOutsideSession
  <2>1. ~pendingOriginate /\ \A key \in Keys : pending[key] = 0
    BY NoCommandType DEF PendingInv, Executing
  <2>2. pending = [key \in Keys |-> 0]
    BY <2>1 DEF PendingInv, IsPending
  <2>. QED
    BY <2>1, <2>2 DEF NonePending, Keys
<1>. QED
  BY <1>1, <1>2, <1>3, PTL DEF ClientSpec

----------------------------------------------------------------------------
Waits(queue) == \E n \in 1..Len(queue) : queue[n] = Disconnected

LossInv == (\E S : signals \in Seq(S)) /\ LinkLossIsAlwaysNoticed

(* Two signals in either order are a sequence of those signals.            *)
LEMMA AnyOrderType == ASSUME NEW a, NEW b PROVE AnyOrder(a, b) \subseteq Seq({a, b})
<1>1. <<a, b>> \in Seq({a, b}) /\ <<b, a>> \in Seq({a, b})
  OBVIOUS
<1>. QED
  BY <1>1 DEF AnyOrder

(* News at the end of the channel does not displace what waits in it.      *)
LEMMA ArrivalsKeep ==
    ASSUME NEW S, NEW queue \in Seq(S), NEW T, NEW news \in Seq(T)
    PROVE  /\ queue \o news \in Seq(S \cup T)
           /\ Waits(queue) \/ Waits(news) => Waits(queue \o news)
<1>1. queue \in Seq(S \cup T) /\ news \in Seq(S \cup T)
  OBVIOUS
<1>2. queue \o news \in Seq(S \cup T) /\ Len(queue \o news) = Len(queue) + Len(news)
  BY SMTT(60), <1>1
<1>3. ASSUME Waits(queue) PROVE Waits(queue \o news)
  <2>1. PICK n \in 1..Len(queue) : queue[n] = Disconnected
    BY <1>3 DEF Waits
  <2>2. (queue \o news)[n] = queue[n] /\ n \in 1..Len(queue \o news)
    BY SMTT(60), <1>1, <1>2
  <2>. QED
    BY <2>1, <2>2 DEF Waits
<1>4. ASSUME Waits(news) PROVE Waits(queue \o news)
  <2>1. PICK n \in 1..Len(news) : news[n] = Disconnected
    BY <1>4 DEF Waits
  <2>2. /\ (queue \o news)[Len(queue) + n] = news[n]
        /\ Len(queue) + n \in 1..Len(queue \o news)
    BY <1>1, <1>2
  <2>. QED
    BY SMTT(60), <2>1, <2>2 DEF Waits
<1>. QED
  BY <1>2, <1>3, <1>4

(* Handling a signal other than a disconnect keeps the disconnect.         *)
LEMMA HandlingKeeps ==
    ASSUME NEW S, NEW queue \in Seq(S), queue # <<>>, Head(queue).kind # "disconnected"
    PROVE  Tail(queue) \in Seq(S) /\ (Waits(queue) => Waits(Tail(queue)))
<1>1. Tail(queue) \in Seq(S) /\ Len(Tail(queue)) = Len(queue) - 1
  OBVIOUS
<1>2. ASSUME Waits(queue) PROVE Waits(Tail(queue))
  <2>1. PICK n \in 1..Len(queue) : queue[n] = Disconnected
    BY <1>2 DEF Waits
  <2>2. n # 1
    BY <2>1 DEF Disconnected
  <2>3. n - 1 \in 1..Len(Tail(queue)) /\ Tail(queue)[n - 1] = queue[n]
    BY SMTT(60), <1>1, <2>1, <2>2
  <2>. QED
    BY ZenonT(60), <2>1, <2>3 DEF Waits
<1>. QED
  BY <1>1, <1>2

(* The phone's notifications, which leave the link as it is.               *)
LEMMA NotifyKeepsLoss ==
    ASSUME LossInv, NEW T, NEW news \in Seq(T), Notify(news), UNCHANGED <<link, phase>>
    PROVE  LossInv'
<1>1. PICK S : signals \in Seq(S)
  BY DEF LossInv
<1>2. signals' = signals \/ signals' = signals \o news
  BY DEF Notify
<1>3. (\E R : signals' \in Seq(R)) /\ (Waits(signals) => Waits(signals'))
  <2>1. CASE signals' = signals
    BY <1>1, <2>1
  <2>2. CASE signals' = signals \o news
    <3>1. signals \o news \in Seq(S \cup T) /\ (Waits(signals) => Waits(signals \o news))
      BY Zenon, <1>1, ArrivalsKeep
    <3>. QED
      BY <2>2, <3>1
  <2>. QED
    BY <1>2, <2>1, <2>2
<1>. QED
  BY <1>3 DEF LossInv, LinkLossIsAlwaysNoticed, Waits, Notified

(* The session's end empties the channel, when nothing depends on it.      *)
LEMMA EndKeepsLoss ==
    ASSUME phase' \in {"idle", "matched"}, signals' = <<>>
    PROVE  LossInv'
<1>1. signals' \in Seq({})
  OBVIOUS
<1>. QED
  BY <1>1 DEF LossInv, LinkLossIsAlwaysNoticed, Notified

(* Every step keeps the loss in sight: the bearer is read after the match  *)
(* rule is in place, so the loss is seen by one or the other.              *)
LEMMA StepsKeepLoss == LossInv /\ [ClientNext]_clientVars => LossInv'
<1>. SUFFICES ASSUME LossInv, [ClientNext]_clientVars
              PROVE  LossInv'
  OBVIOUS
<1>0. PICK S : signals \in Seq(S)
  BY DEF LossInv
<1>1. ASSUME NEW i \in Index, PhoneRings(i) PROVE LossInv'
  <2>1. PICK news \in AnyOrder(StateSignal(phone'), IncomingSignal(i, CallerOf[created'])) :
            Notify(news)
    BY <1>1 DEF PhoneRings
  <2>2. news \in Seq({StateSignal(phone'), IncomingSignal(i, CallerOf[created'])})
    BY <2>1, AnyOrderType
  <2>3. UNCHANGED <<link, phase>>
    BY <1>1 DEF PhoneRings, sessionVars
  <2>. QED
    BY SMTT(60), <2>1, <2>2, <2>3, NotifyKeepsLoss
<1>2. ASSUME NEW i \in Index, PhoneMoves(i) PROVE LossInv'
  <2>1. Notify(<<StateSignal(phone')>>) /\ UNCHANGED <<link, phase>>
    BY <1>2 DEF PhoneMoves, sessionVars
  <2>2. <<StateSignal(phone')>> \in Seq({StateSignal(phone')})
    OBVIOUS
  <2>. QED
    BY Zenon, <2>1, <2>2, NotifyKeepsLoss
<1>3. CASE PhoneAnswers
  <2>. DEFINE result == ResultSignal(Head(control).op, Head(control).index)
  <2>1. UNCHANGED <<link, phase>>
    BY Zenon, <1>3 DEF PhoneAnswers, sessionVars
  <2>2. PICK news \in AnyOrder(StateSignal(phone'), result) \cup {<<result>>} : Notify(news)
    BY <1>3 DEF PhoneAnswers
  <2>3. news \in Seq({StateSignal(phone'), result})
    <3>1. <<result>> \in Seq({StateSignal(phone'), result})
      OBVIOUS
    <3>. QED
      BY ZenonT(60), <2>2, <3>1, AnyOrderType
  <2>. QED
    BY Zenon, <2>1, <2>2, <2>3, NotifyKeepsLoss
<1>4. CASE LinkLost
  <2>1. /\ UNCHANGED phase
        /\ signals' = IF phase = "idle" THEN signals ELSE Append(signals, Disconnected)
    BY <1>4 DEF LinkLost, sessionVars
  <2>2. <<Disconnected>> \in Seq({Disconnected}) /\ Waits(<<Disconnected>>)
    BY DEF Waits
  <2>3. Append(signals, Disconnected) = signals \o <<Disconnected>>
    BY <1>0
  <2>4. /\ signals \o <<Disconnected>> \in Seq(S \cup {Disconnected})
        /\ Waits(signals \o <<Disconnected>>)
    BY ZenonT(60), <1>0, <2>2, ArrivalsKeep
  <2>. QED
    BY Zenon, <1>0, <2>1, <2>3, <2>4 DEF LossInv, LinkLossIsAlwaysNoticed, Waits, Notified
<1>5. CASE LinkBack
  BY <1>0, <1>5 DEF LinkBack, LossInv, LinkLossIsAlwaysNoticed
<1>6. CASE Connect
  BY <1>6, EndKeepsLoss DEF Connect
<1>7. CASE CheckBearer
  <2>1. CASE Unestablished
    BY <2>1, EndKeepsLoss DEF Unestablished
  <2>2. CASE ~Unestablished
    BY Zenon, <1>0, <1>7, <2>2 DEF CheckBearer, LossInv, LinkLossIsAlwaysNoticed
  <2>. QED
    BY <2>1, <2>2
<1>8. CASE ReadCallState
  <2>1. CASE Unestablished
    BY <2>1, EndKeepsLoss DEF Unestablished
  <2>2. CASE ~Unestablished
    BY <1>0, <1>8, <2>2 DEF ReadCallState, LossInv, LinkLossIsAlwaysNoticed
  <2>. QED
    BY <2>1, <2>2
<1>9. CASE ApplyCallState \/ Publish
  <2>1. Notified /\ UNCHANGED <<link, signals>>
    BY <1>9 DEF ApplyCallState, Publish, Notified
  <2>. QED
    BY Zenon, <1>0, <2>1 DEF LossInv, LinkLossIsAlwaysNoticed
<1>10. CASE HandleSignal
  <2>1. CASE EndSession
    BY <2>1, EndKeepsLoss DEF EndSession
  <2>2. CASE ~EndSession
    <3>1. /\ signals # <<>> /\ Head(signals).kind # "disconnected"
          /\ signals' = Tail(signals) /\ UNCHANGED <<phase, link>>
      BY <1>10, <2>2 DEF HandleSignal
    <3>2. signals' \in Seq(S) /\ (Waits(signals) => Waits(signals'))
      BY <1>0, <3>1, HandlingKeeps
    <3>. QED
      BY <3>1, <3>2 DEF LossInv, LinkLossIsAlwaysNoticed, Waits, Notified
  <2>. QED
    BY <2>1, <2>2
<1>11. CASE BusLost
  BY <1>11, EndKeepsLoss DEF BusLost, EndSession
<1>12. CASE \/ CommandStep \/ UNCHANGED clientVars
            \/ \E request \in Requests : CommandArrives(request)
  <2>1. UNCHANGED <<link, signals, phase>>
    BY <1>12 DEF CommandStep, CommandValidates, CommandTakesConnection, CommandRegisters,
                 CommandWrites, CommandUndoes, CommandArrives, clientVars, sessionVars
  <2>. QED
    BY ZenonT(60), <1>0, <2>1 DEF LossInv, LinkLossIsAlwaysNoticed, Notified
<1>. QED
  BY ZenonT(60), <1>1, <1>2, <1>3, <1>4, <1>5, <1>6, <1>7, <1>8, <1>9, <1>10, <1>11, <1>12
     DEF ClientNext, SessionStep

(* client.go runOnce: the match rule comes before the bearer is read, and  *)
(* signals are handled in order.  A session that is being set up or served *)
(* over a lost link therefore always has the disconnect ahead of it.       *)
THEOREM LossesStayInSight == ClientSpec => []LinkLossIsAlwaysNoticed
<1>1. ClientInit => LossInv
  <2>1. <<>> \in Seq({})
    OBVIOUS
  <2>. QED
    BY <2>1 DEF ClientInit, LossInv, LinkLossIsAlwaysNoticed, Notified
<1>2. LossInv => LinkLossIsAlwaysNoticed
  BY DEF LossInv
<1>. QED
  BY <1>1, <1>2, StepsKeepLoss, PTL DEF ClientSpec

----------------------------------------------------------------------------
(* The store under the client: what reaches it, and that it ends up with   *)
(* the phone's calls.                                                      *)

PhoneCalls == {NoPhoneCall} \cup
    [state : {"Incoming", "Dialing", "Active"}, outgoing : BOOLEAN, id : 1..MaxCalls]

PhoneInv == phone \in [Index -> PhoneCalls] /\ created \in 0..MaxCalls

(* What a signal carries is fit for the store.                             *)
IsSignal(x) ==
    /\ x.kind = "state" => x.value \in CallStateValue
    /\ x.kind = "incoming" => x.index \in Index /\ x.uri \in URIs \cup {NoURI}

Silent(queue) == \A k \in 1..Len(queue) : queue[k].kind # "state"

(* The last Call State value in a queue is this one.                       *)
EndsAt(queue, value) ==
    \A k \in 1..Len(queue) :
        /\ queue[k].kind = "state"
        /\ \A j \in 1..Len(queue) : j > k => queue[j].kind # "state"
        => queue[k].value = value

IsQueue(queue) == (\E S : queue \in Seq(S)) /\ \A k \in 1..Len(queue) : IsSignal(queue[k])

StoreMatches ==
    \A i \in Index : /\ calls[i].state = phone[i].state
                     /\ calls[i].outgoing = phone[i].outgoing

(* The latest value of the phone is the last one waiting in the channel,   *)
(* or was read, or is in the store.                                        *)
MatchInv ==
    /\ IsQueue(signals) /\ EndsAt(signals, ValueOf(phone))
    /\ ~Notified => Silent(signals)
    /\ phase = "read" => /\ readCalls \in CallStateValue
                         /\ Silent(signals) => readCalls = ValueOf(phone)
    /\ phase \in {"applied", "up"} /\ Silent(signals) => StoreMatches

ClientInv == PhoneInv /\ MatchInv

(* The phone's calls make a value the store accepts.                       *)
LEMMA ValueType ==
    ASSUME NEW p \in [Index -> PhoneCalls]
    PROVE  ValueOf(p) \in CallStateValue /\ IsSignal(StateSignal(p))
<1>1. ASSUME NEW i \in Index
      PROVE  [state |-> p[i].state, outgoing |-> p[i].outgoing] \in Report
  <2>1. CASE p[i] = NoPhoneCall
    BY SMTT(60), <2>1 DEF NoPhoneCall, Report, NoReport
  <2>2. CASE p[i] # NoPhoneCall
    <3>1. p[i].state \in States /\ p[i].outgoing \in BOOLEAN
      BY Zenon, <2>2, PhoneStatesAssumption DEF PhoneCalls
    <3>. QED
      BY <3>1 DEF Report
  <2>. QED
    BY Zenon, <2>1, <2>2
<1>2. ValueOf(p) \in CallStateValue
  BY <1>1 DEF ValueOf, CallStateValue
<1>. QED
  BY <1>2 DEF IsSignal, StateSignal

(* An empty channel is a silent one.                                       *)
LEMMA EmptyQueue == IsQueue(<<>>) /\ Silent(<<>>) /\ \A v : EndsAt(<<>>, v)
<1>1. <<>> \in Seq({}) /\ Len(<<>>) = 0
  OBVIOUS
<1>. QED
  BY <1>1 DEF IsQueue, Silent, EndsAt

(* In a silent channel nothing has to be the last value.                   *)
LEMMA SilentEnds == ASSUME NEW q, Silent(q), NEW v PROVE EndsAt(q, v)
BY DEF Silent, EndsAt

(* A signal that is no Call State leaves the last value the last.          *)
LEMMA OtherArrives ==
    ASSUME NEW q, IsQueue(q), NEW b, b.kind # "state", IsSignal(b), NEW v, EndsAt(q, v),
           NEW r, r = Append(q, b) \/ r = q \o <<b>>
    PROVE  IsQueue(r) /\ EndsAt(r, v) /\ (Silent(r) <=> Silent(q))
<1>1. PICK S : q \in Seq(S)
  BY DEF IsQueue
<1>2. q \in Seq(S \cup {b}) /\ <<b>> \in Seq(S \cup {b})
  BY SMTT(60), <1>1
<1>3. /\ r \in Seq(S \cup {b}) /\ Len(r) = Len(q) + 1 /\ Len(q) \in Nat
      /\ r[Len(q) + 1] = b /\ \A k \in 1..Len(q) : r[k] = q[k]
  BY SMTT(60), <1>1, <1>2
<1>4. \A k \in 1..Len(r) : k = Len(q) + 1 \/ k \in 1..Len(q)
  BY <1>3
<1>5. \A k \in 1..Len(q) : k \in 1..Len(r)
  BY SMTT(60), <1>3
<1>6. IsQueue(r)
  BY Zenon, <1>3, <1>4 DEF IsQueue
<1>7. Silent(r) <=> Silent(q)
  BY Zenon, <1>3, <1>4, <1>5 DEF Silent
<1>8. EndsAt(r, v)
  <2>. SUFFICES ASSUME NEW k \in 1..Len(r), r[k].kind = "state",
                       \A j \in 1..Len(r) : j > k => r[j].kind # "state"
                PROVE  r[k].value = v
    BY Zenon DEF EndsAt
  <2>1. k \in 1..Len(q) /\ q[k].kind = "state" /\ r[k] = q[k]
    BY Zenon, <1>3, <1>4
  <2>2. \A j \in 1..Len(q) : j > k => q[j].kind # "state"
    BY <1>3, <1>5
  <2>. QED
    BY Zenon, <2>1, <2>2 DEF EndsAt
<1>. QED
  BY Zenon, <1>6, <1>7, <1>8

(* A Call State value that arrives, alone or next to another signal, is    *)
(* the last one.                                                           *)
LEMMA StateArrives ==
    ASSUME NEW q, IsQueue(q), NEW a, a.kind = "state", IsSignal(a),
           NEW b, b.kind # "state", IsSignal(b),
           NEW news \in {<<a>>, <<a, b>>, <<b, a>>}
    PROVE  IsQueue(q \o news) /\ EndsAt(q \o news, a.value) /\ ~Silent(q \o news)
<1>1. PICK S : q \in Seq(S)
  BY DEF IsQueue
<1>. DEFINE T == S \cup {a, b}
            r == q \o news
<1>2. q \in Seq(T) /\ news \in Seq(T) /\ Len(news) \in 1..2
  <2>1. a \in T /\ b \in T /\ S \subseteq T
    OBVIOUS
  <2>. HIDE DEF T
  <2>2. q \in Seq(T)
    BY SMTT(60), <1>1, <2>1
  <2>3. CASE news = <<a>>
    BY SMTT(60), <2>1, <2>2, <2>3
  <2>4. CASE news = <<a, b>>
    BY <2>1, <2>2, <2>4
  <2>5. CASE news = <<b, a>>
    BY SMTT(60), <2>1, <2>2, <2>5
  <2>. QED
    BY <2>3, <2>4, <2>5
<1>3. /\ r \in Seq(T) /\ Len(r) = Len(q) + Len(news) /\ Len(q) \in Nat
      /\ \A k \in 1..Len(q) : r[k] = q[k]
      /\ \A k \in 1..Len(news) : r[Len(q) + k] = news[k]
  BY SMTT(60), <1>2
<1>. HIDE DEF T, r
<1>4. PICK m \in 1..Len(news) : /\ news[m] = a
                                /\ \A j \in 1..Len(news) : j # m => news[j] = b
  <2>1. CASE news = <<a>> \/ news = <<a, b>>
    <3>1. 1 \in 1..Len(news) /\ news[1] = a /\ \A j \in 1..Len(news) : j # 1 => news[j] = b
      BY SMTT(60), <2>1
    <3>. QED
      BY SMTT(60), <3>1
  <2>2. CASE news = <<b, a>>
    <3>1. 2 \in 1..Len(news) /\ news[2] = a /\ \A j \in 1..Len(news) : j # 2 => news[j] = b
      BY SMTT(60), <2>2
    <3>. QED
      BY <3>1
  <2>. QED
    BY Zenon, <2>1, <2>2
<1>5. Len(q) + m \in 1..Len(r) /\ r[Len(q) + m] = a
  BY SMTT(60), <1>2, <1>3, <1>4
<1>6. ASSUME NEW k \in 1..Len(r)
      PROVE  \/ k \in 1..Len(q) /\ r[k] = q[k]
             \/ k = Len(q) + m
             \/ k > Len(q) /\ r[k] = b
  <2>1. CASE k > Len(q)
    <3>. DEFINE n == k - Len(q)
    <3>1. n \in 1..Len(news) /\ Len(q) + n = k
      BY SMTT(60), <1>2, <1>3, <2>1
    <3>. HIDE DEF n
    <3>2. r[Len(q) + n] = news[n]
      BY Zenon, <1>3, <3>1
    <3>. QED
      BY ZenonT(60), <1>4, <2>1, <3>1, <3>2
  <2>2. CASE ~(k > Len(q))
    BY SMTT(60), <1>2, <1>3, <2>2
  <2>. QED
    BY Zenon, <2>1, <2>2
<1>7. IsQueue(r)
  BY Zenon, <1>3, <1>5, <1>6 DEF IsQueue
<1>8. ~Silent(r)
  BY Zenon, <1>5 DEF Silent
<1>9. EndsAt(r, a.value)
  <2>. SUFFICES ASSUME NEW k \in 1..Len(r), r[k].kind = "state",
                       \A j \in 1..Len(r) : j > k => r[j].kind # "state"
                PROVE  r[k].value = a.value
    BY Zenon DEF EndsAt
  <2>1. k \notin 1..Len(q)
    BY SMTT(60), <1>2, <1>3, <1>4, <1>5
  <2>. QED
    BY ZenonT(60), <1>5, <1>6, <2>1
<1>. QED
  BY Zenon, <1>7, <1>8, <1>9 DEF r

(* Taking the first signal leaves the last value the last; when it is the  *)
(* only Call State, it is the last value.                                  *)
LEMMA FirstTaken ==
    ASSUME NEW q, IsQueue(q), q # <<>>, NEW v, EndsAt(q, v)
    PROVE  /\ IsQueue(Tail(q)) /\ IsSignal(Head(q)) /\ EndsAt(Tail(q), v)
           /\ Silent(Tail(q)) => IF Head(q).kind = "state" THEN Head(q).value = v ELSE Silent(q)
<1>1. PICK S : q \in Seq(S)
  BY DEF IsQueue
<1>. DEFINE r == Tail(q)
<1>2. /\ r \in Seq(S) /\ Len(q) \in Nat \ {0} /\ Len(r) = Len(q) - 1 /\ Head(q) = q[1]
      /\ \A k \in 1..Len(r) : r[k] = q[k + 1]
  BY <1>1
<1>. HIDE DEF r
<1>3. /\ \A k \in 1..Len(r) : k + 1 \in 1..Len(q)
      /\ \A k \in 1..Len(q) : k # 1 => k - 1 \in 1..Len(r) /\ r[k - 1] = q[k]
      /\ 1 \in 1..Len(q)
  BY <1>2
<1>4. IsQueue(r) /\ IsSignal(Head(q))
  BY Zenon, <1>2, <1>3 DEF IsQueue
<1>5. EndsAt(r, v)
  <2>. SUFFICES ASSUME NEW k \in 1..Len(r), r[k].kind = "state",
                       \A j \in 1..Len(r) : j > k => r[j].kind # "state"
                PROVE  r[k].value = v
    BY Zenon DEF EndsAt
  <2>1. k + 1 \in 1..Len(q) /\ q[k + 1].kind = "state" /\ q[k + 1] = r[k]
    BY ZenonT(60), <1>2, <1>3
  <2>2. ASSUME NEW j \in 1..Len(q), j > k + 1 PROVE q[j].kind # "state"
    <3>1. j - 1 \in 1..Len(r) /\ j - 1 > k /\ r[j - 1] = q[j]
      BY SMTT(60), <1>2, <1>3, <2>2
    <3>. QED
      BY Zenon, <3>1
  <2>. QED
    BY Zenon, <2>1, <2>2 DEF EndsAt
<1>6. Silent(r) /\ Head(q).kind # "state" => Silent(q)
  BY ZenonT(60), <1>2, <1>3 DEF Silent
<1>7. Silent(r) /\ Head(q).kind = "state" => Head(q).value = v
  <2>. SUFFICES ASSUME Silent(r), q[1].kind = "state" PROVE q[1].value = v
    BY Zenon, <1>2
  <2>1. \A j \in 1..Len(q) : j > 1 => q[j].kind # "state"
    BY SMTT(60), <1>2, <1>3 DEF Silent
  <2>. QED
    BY Zenon, <1>3, <2>1 DEF EndsAt
<1>. QED
  BY ZenonT(60), <1>4, <1>5, <1>6, <1>7 DEF r

(* A value that is the phone's makes the store match the phone.            *)
LEMMA ApplyMatches ==
    ASSUME phone \in [Index -> PhoneCalls], Apply(ValueOf(phone)), UNCHANGED phone
    PROVE  StoreMatches'
<1>1. \A i \in Index : phone[i].state = "None" => phone[i].outgoing = FALSE
  BY DEF PhoneCalls, NoPhoneCall
<1>. QED
  BY Zenon, <1>1 DEF StoreMatches, Apply, ApplyCalls, ValueOf, NoCall

(* News of a changed phone.                                                *)
LEMMA NewsKeepsMatch ==
    ASSUME ClientInv, phone' \in [Index -> PhoneCalls], created' \in 0..MaxCalls,
           NEW b, b.kind # "state", IsSignal(b),
           NEW news \in {<<StateSignal(phone')>>, <<StateSignal(phone'), b>>,
                         <<b, StateSignal(phone')>>},
           Notify(news), UNCHANGED <<calls, phase, readCalls>>
    PROVE  ClientInv'
<1>. DEFINE a == StateSignal(phone')
<1>1. a.kind = "state" /\ a.value = ValueOf(phone)' /\ IsSignal(a)
  BY Zenon, ValueType DEF StateSignal
<1>2. CASE Notified
  <2>1. signals' = signals \o news
    BY <1>2 DEF Notify
  <2>2. IsQueue(signals') /\ EndsAt(signals', a.value) /\ ~Silent(signals')
    <3>. HIDE DEF a
    <3>. QED
      BY Zenon, <1>1, <2>1, StateArrives DEF ClientInv, MatchInv, a
  <2>. QED
    BY ZenonT(60), <1>1, <1>2, <2>2 DEF ClientInv, PhoneInv, MatchInv, Notified
<1>3. CASE ~Notified
  <2>1. signals' = signals /\ Silent(signals) /\ IsQueue(signals)
    BY Zenon, <1>3 DEF Notify, ClientInv, MatchInv
  <2>2. EndsAt(signals, ValueOf(phone)')
    BY ZenonT(60), <2>1, SilentEnds
  <2>. QED
    BY ZenonT(60), <1>3, <2>1, <2>2 DEF ClientInv, PhoneInv, MatchInv, Notified
<1>. QED
  BY Zenon, <1>2, <1>3

(* A step that leaves the phone, the channel and the calls alone.          *)
LEMMA UntouchedKeepsMatch ==
    ASSUME ClientInv, UNCHANGED <<calls, phone, created, phase, readCalls, signals>>
    PROVE  ClientInv'
BY Zenon DEF ClientInv, PhoneInv, MatchInv, Notified, StoreMatches

(* The channel is gone with the session, or new.                           *)
LEMMA EmptyKeepsMatch ==
    ASSUME ClientInv, UNCHANGED <<phone, created>>, signals' = <<>>,
           phase' \in {"idle", "matched"}
    PROVE  ClientInv'
BY ZenonT(60), EmptyQueue DEF ClientInv, PhoneInv, MatchInv

(* A call that appears is one of the phone's calls.                        *)
LEMMA AppearsType ==
    ASSUME PhoneInv, NEW i \in Index, NEW state \in {"Incoming", "Dialing"},
           NEW outgoing \in BOOLEAN, CallAppears(i, state, outgoing)
    PROVE  /\ phone' \in [Index -> PhoneCalls]
           /\ created' \in 1..MaxCalls /\ created' \in 0..MaxCalls
<1>1. MaxCalls \in Nat
  BY CallerAssumption DEF MaxCalls
<1>2. created' \in 1..MaxCalls /\ created' \in 0..MaxCalls
  BY <1>1 DEF CallAppears, PhoneInv
<1>3. [state |-> state, outgoing |-> outgoing, id |-> created'] \in PhoneCalls
  BY <1>2 DEF PhoneCalls
<1>. QED
  BY <1>2, <1>3 DEF CallAppears, PhoneInv

(* So is one that is answered, and an index that becomes free is free.     *)
LEMMA MovesType ==
    ASSUME PhoneInv, NEW i,
           \/ /\ phone[i].state \in {"Incoming", "Dialing"}
              /\ phone' = [phone EXCEPT ![i].state = "Active"]
           \/ phone' = [phone EXCEPT ![i] = NoPhoneCall]
    PROVE  phone' \in [Index -> PhoneCalls]
<1>1. ASSUME i \in Index, phone[i].state \in {"Incoming", "Dialing"}
      PROVE  [phone[i] EXCEPT !.state = "Active"] \in PhoneCalls
  BY <1>1 DEF PhoneInv, PhoneCalls, NoPhoneCall
<1>. QED
  BY ZenonT(60), <1>1 DEF PhoneInv, PhoneCalls

(* The phone's own steps.                                                  *)
LEMMA PhoneKeepsMatch ==
    ASSUME ClientInv, NEW i \in Index, PhoneRings(i) \/ PhoneMoves(i)
    PROVE  ClientInv'
<1>0. PhoneInv
  BY DEF ClientInv
<1>1. CASE PhoneRings(i)
  <2>. DEFINE b == IncomingSignal(i, CallerOf[created'])
  <2>1. /\ phone' \in [Index -> PhoneCalls]
        /\ created' \in 1..MaxCalls /\ created' \in 0..MaxCalls
    BY Zenon, <1>0, <1>1, AppearsType DEF PhoneRings
  <2>2. CallerOf[created'] \in URIs \cup {NoURI}
    BY <2>1, CallerAssumption DEF MaxCalls
  <2>3. b.kind # "state" /\ IsSignal(b)
    BY Zenon, <2>2 DEF IsSignal, IncomingSignal
  <2>. HIDE DEF b
  <2>4. PICK news \in AnyOrder(StateSignal(phone'), b) : Notify(news)
    BY Zenon, <1>1 DEF PhoneRings, b
  <2>5. UNCHANGED <<calls, phase, readCalls>>
    BY <1>1 DEF PhoneRings, vars, sessionVars
  <2>6. news \in {<<StateSignal(phone')>>, <<StateSignal(phone'), b>>, <<b, StateSignal(phone')>>}
    BY <2>4 DEF AnyOrder
  <2>. QED
    BY Zenon, <2>1, <2>3, <2>4, <2>5, <2>6, NewsKeepsMatch
<1>2. CASE PhoneMoves(i)
  <2>. DEFINE b == Disconnected
  <2>1. phone' \in [Index -> PhoneCalls] /\ created' \in 0..MaxCalls
    <3>1. CASE CallAppears(i, "Dialing", TRUE)
      BY Zenon, <1>0, <3>1, AppearsType
    <3>2. CASE ~CallAppears(i, "Dialing", TRUE)
      BY Zenon, <1>0, <1>2, <3>2, MovesType DEF PhoneMoves, PhoneInv
    <3>. QED
      BY Zenon, <3>1, <3>2
  <2>2. b.kind # "state" /\ IsSignal(b)
    BY DEF IsSignal, Disconnected
  <2>. HIDE DEF b
  <2>3. Notify(<<StateSignal(phone')>>) /\ UNCHANGED <<calls, phase, readCalls>>
    BY ZenonT(60), <1>2 DEF PhoneMoves, vars, sessionVars
  <2>. QED
    BY Zenon, <2>1, <2>2, <2>3, NewsKeepsMatch
<1>. QED
  BY <1>1, <1>2

(* A signal that is no Call State, to a session that listens.              *)
LEMMA OtherKeepsMatch ==
    ASSUME ClientInv, UNCHANGED <<calls, phone, created, phase, readCalls>>,
           NEW b, b.kind # "state", IsSignal(b),
           signals' = signals \/ signals' = Append(signals, b) \/ signals' = signals \o <<b>>
    PROVE  ClientInv'
<1>1. /\ IsQueue(signals') /\ EndsAt(signals', ValueOf(phone))
      /\ Silent(signals') <=> Silent(signals)
  BY ZenonT(60), OtherArrives DEF ClientInv, MatchInv
<1>. QED
  BY Zenon, <1>1 DEF ClientInv, PhoneInv, MatchInv, Notified, StoreMatches

(* The phone answers a write.                                              *)
LEMMA AnswerKeepsMatch ==
    ASSUME ClientInv, PhoneAnswers
    PROVE  ClientInv'
<1>0. PhoneInv
  BY Zenon DEF ClientInv
<1>. DEFINE b == ResultSignal(Head(control).op, Head(control).index)
<1>1. b.kind # "state" /\ IsSignal(b)
  BY ZenonT(60) DEF IsSignal, ResultSignal
<1>2. UNCHANGED <<calls, phase, readCalls>>
  BY Zenon DEF PhoneAnswers, vars, sessionVars
<1>. HIDE DEF b
<1>3. CASE Notify(<<b>>) /\ UNCHANGED phoneVars
  BY ZenonT(60), <1>1, <1>2, <1>3, OtherKeepsMatch DEF Notify, phoneVars
<1>4. CASE /\ PhoneObeys(Head(control))
           /\ \E news \in AnyOrder(StateSignal(phone'), b) : Notify(news)
  <2>1. phone' \in [Index -> PhoneCalls] /\ created' \in 0..MaxCalls
    <3>1. CASE \E j \in Index : CallAppears(j, "Dialing", TRUE)
      BY Zenon, <1>0, <3>1, AppearsType
    <3>2. CASE ~\E j \in Index : CallAppears(j, "Dialing", TRUE)
      BY Zenon, <1>0, <1>4, <3>2, MovesType DEF PhoneObeys, PhoneInv
    <3>. QED
      BY Zenon, <3>1, <3>2
  <2>2. PICK news \in AnyOrder(StateSignal(phone'), b) : Notify(news)
    BY <1>4
  <2>3. news \in {<<StateSignal(phone')>>, <<StateSignal(phone'), b>>, <<b, StateSignal(phone')>>}
    BY <2>2 DEF AnyOrder
  <2>. QED
    BY Zenon, <1>1, <1>2, <2>1, <2>2, <2>3, NewsKeepsMatch
<1>. QED
  BY Zenon, <1>3, <1>4 DEF PhoneAnswers, b

(* The session goroutine.                                                  *)
LEMMA SessionKeepsMatch ==
    ASSUME ClientInv, SessionStep \/ BusLost
    PROVE  ClientInv'
<1>0. PhoneInv /\ MatchInv
  BY DEF ClientInv
<1>1. CASE Connect \/ BusLost
  BY <1>1, EmptyKeepsMatch DEF Connect, BusLost, EndSession, phoneVars
<1>2. CASE CheckBearer
  <2>1. UNCHANGED <<phone, created, calls>> /\ phase = "matched"
    BY <1>2 DEF CheckBearer, phoneVars, vars
  <2>2. CASE Unestablished
    BY ZenonT(60), <2>1, <2>2, EmptyKeepsMatch DEF Unestablished
  <2>3. CASE phase' = "notifying" /\ UNCHANGED <<signals, readCalls>>
    BY ZenonT(60), <1>0, <2>1, <2>3 DEF ClientInv, PhoneInv, MatchInv, Notified
  <2>. QED
    BY ZenonT(60), <1>2, <2>2, <2>3 DEF CheckBearer
<1>3. CASE ReadCallState
  <2>1. UNCHANGED <<phone, created, calls>> /\ phase = "notifying"
    BY <1>3 DEF ReadCallState, phoneVars, vars
  <2>2. CASE Unestablished
    BY ZenonT(60), <2>1, <2>2, EmptyKeepsMatch DEF Unestablished
  <2>3. CASE phase' = "read" /\ readCalls' = ValueOf(phone) /\ UNCHANGED signals
    <3>1. ValueOf(phone) \in CallStateValue
      BY Zenon, <1>0, ValueType DEF PhoneInv
    <3>. QED
      BY <1>0, <2>1, <2>3, <3>1 DEF ClientInv, PhoneInv, MatchInv, Notified
  <2>. QED
    BY ZenonT(60), <1>3, <2>2, <2>3 DEF ReadCallState
<1>4. CASE ApplyCallState
  <2>1. /\ UNCHANGED <<phone, created, signals>> /\ phase = "read" /\ phase' = "applied"
        /\ Apply(readCalls)
    BY Zenon, <1>4 DEF ApplyCallState, phoneVars
  <2>2. Silent(signals) => StoreMatches'
    BY ZenonT(60), <1>0, <2>1, ApplyMatches DEF MatchInv, PhoneInv
  <2>. QED
    BY ZenonT(60), <1>0, <2>1, <2>2 DEF ClientInv, PhoneInv, MatchInv, Notified
<1>5. CASE Publish
  <2>1. UNCHANGED <<calls, phone, created, signals>> /\ phase = "applied" /\ phase' = "up"
    BY Zenon, <1>5 DEF Publish, ApplyIncomingCall, vars, phoneVars
  <2>. QED
    BY Zenon, <1>0, <2>1 DEF ClientInv, PhoneInv, MatchInv, Notified, StoreMatches
<1>6. CASE HandleSignal
  <2>1. /\ phase = "up" /\ signals # <<>> /\ UNCHANGED <<phone, created>>
        /\ IsQueue(signals) /\ EndsAt(signals, ValueOf(phone))
    BY <1>0, <1>6 DEF HandleSignal, phoneVars, MatchInv
  <2>2. CASE EndSession
    BY Zenon, <2>1, <2>2, EmptyKeepsMatch DEF EndSession
  <2>3. CASE ~EndSession
    <3>1. /\ signals' = Tail(signals) /\ UNCHANGED <<phase, readCalls>>
          /\ \/ Head(signals).kind = "state" /\ Apply(Head(signals).value)
             \/ Head(signals).kind # "state" /\ UNCHANGED calls
      BY Zenon, <1>6, <2>3 DEF HandleSignal, ApplyIncomingCall, HandleControlResult, vars
    <3>2. /\ IsQueue(signals') /\ EndsAt(signals', ValueOf(phone))
          /\ Silent(signals') => IF Head(signals).kind = "state"
                                 THEN Head(signals).value = ValueOf(phone) ELSE Silent(signals)
      BY ZenonT(60), <2>1, <3>1, FirstTaken
    <3>3. Silent(signals') => StoreMatches'
      <4>1. CASE Head(signals).kind = "state"
        BY ZenonT(60), <1>0, <2>1, <3>1, <3>2, <4>1, ApplyMatches DEF PhoneInv
      <4>2. CASE Head(signals).kind # "state"
        BY ZenonT(60), <1>0, <2>1, <3>1, <3>2, <4>2 DEF MatchInv, StoreMatches
      <4>. QED
        BY Zenon, <4>1, <4>2
    <3>. QED
      BY ZenonT(60), <1>0, <2>1, <3>1, <3>2, <3>3 DEF ClientInv, PhoneInv, MatchInv, Notified
  <2>. QED
    BY <2>2, <2>3
<1>. QED
  BY ZenonT(60), <1>1, <1>2, <1>3, <1>4, <1>5, <1>6 DEF SessionStep

(* Every step of the client keeps the store in step with the phone.        *)
LEMMA StepsKeepMatch == ClientInv /\ [ClientNext]_clientVars => ClientInv'
<1>. SUFFICES ASSUME ClientInv, [ClientNext]_clientVars PROVE ClientInv'
  OBVIOUS
<1>1. CASE LinkLost
  <2>1. Disconnected.kind # "state" /\ IsSignal(Disconnected)
    BY Zenon DEF IsSignal, Disconnected
  <2>. QED
    BY Zenon, <1>1, <2>1, OtherKeepsMatch DEF LinkLost, phoneVars, vars, sessionVars
<1>2. CASE LinkBack \/ CommandStep
  BY <1>2, UntouchedKeepsMatch
     DEF LinkBack, CommandStep, CommandValidates, CommandTakesConnection, CommandRegisters,
         CommandWrites, CommandUndoes, phoneVars, vars, sessionVars
<1>3. ASSUME NEW request \in Requests, CommandArrives(request) PROVE ClientInv'
  BY Zenon, <1>3, UntouchedKeepsMatch DEF CommandArrives, ClaimCall, phoneVars, vars, sessionVars
<1>4. CASE UNCHANGED clientVars
  BY Zenon, <1>4, UntouchedKeepsMatch DEF clientVars, phoneVars, vars, sessionVars
<1>. QED
  BY ZenonT(60), <1>1, <1>2, <1>3, <1>4, PhoneKeepsMatch, AnswerKeepsMatch, SessionKeepsMatch DEF ClientNext

(* Before the first session there is nothing to match.                     *)
LEMMA InitMatches == ClientInit => ClientInv
<1>1. MaxCalls \in Nat
  BY CallerAssumption DEF MaxCalls
<1>. QED
  BY <1>1, EmptyQueue DEF ClientInit, ClientInv, PhoneInv, MatchInv, PhoneCalls

(* Once the session has worked off its signals, the store shows the        *)
(* phone's calls: subscribing before the initial read loses no change, for *)
(* any order of calls, signals, commands and losses (client.go runOnce).   *)
THEOREM StoreFollowsPhone == ClientSpec => []IdleStoreMatchesPhone
<1>1. ClientInv => IdleStoreMatchesPhone
  BY EmptyQueue DEF ClientInv, MatchInv, IdleStoreMatchesPhone, Idle, StoreMatches
<1>. QED
  BY InitMatches, StepsKeepMatch, <1>1, PTL DEF ClientSpec

(* The client uses the store as CallStore says it is used: every step of   *)
(* the composition is a step of the store or leaves it alone.  The         *)
(* theorems about the store therefore hold in the composition.             *)
THEOREM ClientKeepsStore == ClientSpec => Spec
<1>1. ClientInit => Init
  BY DEF ClientInit
<1>2. ClientInv /\ [ClientNext]_clientVars => [Next]_vars
  <2>. SUFFICES ASSUME ClientInv, [ClientNext]_clientVars PROVE [Next]_vars
    OBVIOUS
  <2>0. PhoneInv /\ MatchInv
    BY Zenon DEF ClientInv
  <2>1. CASE \/ \E i \in Index : PhoneRings(i) \/ PhoneMoves(i)
             \/ PhoneAnswers \/ LinkLost \/ LinkBack \/ BusLost \/ CommandStep
             \/ Connect \/ CheckBearer \/ ReadCallState \/ UNCHANGED clientVars
    BY Zenon, <2>1 DEF PhoneRings, PhoneMoves, PhoneAnswers, LinkLost, LinkBack, BusLost, CommandStep,
                CommandValidates, CommandTakesConnection, CommandRegisters, CommandWrites,
                CommandUndoes, Connect, CheckBearer, ReadCallState, clientVars
  <2>2. CASE ApplyCallState
    BY Zenon, <2>0, <2>2 DEF ApplyCallState, MatchInv, Next
  <2>3. CASE Publish
    <3>1. ASSUME NEW i \in Index, phone[i].state = "Incoming"
          PROVE  CallerOf[phone[i].id] \in URIs \cup {NoURI}
      <4>1. phone[i].id \in 1..MaxCalls
        BY SMTT(60), <2>0, <3>1 DEF PhoneInv, PhoneCalls, NoPhoneCall
      <4>. QED
        BY <4>1, CallerAssumption DEF MaxCalls
    <3>. QED
      BY ZenonT(60), <2>3, <3>1 DEF Publish, Next
  <2>4. CASE HandleSignal
    <3>1. IsSignal(Head(signals))
      BY ZenonT(60), <2>0, <2>4, FirstTaken DEF HandleSignal, MatchInv
    <3>. QED
      BY Zenon, <2>4, <3>1 DEF HandleSignal, HandleControlResult, IsSignal, Next
  <2>5. ASSUME NEW request \in Requests, CommandArrives(request) PROVE [Next]_vars
    <3>1. request.op = "Accept" => request.index \in Index /\ request.token \in issued
      BY DEF Requests, Shown
    <3>. QED
      BY Zenon, <2>5, <3>1 DEF CommandArrives, Next
  <2>. QED
    BY ZenonT(60), <2>1, <2>2, <2>3, <2>4, <2>5 DEF ClientNext, SessionStep
<1>. QED
  BY <1>1, <1>2, InitMatches, StepsKeepMatch, PTL DEF ClientSpec, Spec

============================================================================
