----------------------------- MODULE CallStore -----------------------------
(***************************************************************************)
(* The GTBS call store of le-call-go (internal/gtbs/state.go).             *)
(*                                                                         *)
(* The store turns the phone's Call State characteristic, which only knows *)
(* small reusable call indexes, into calls with a lifecycle token that is  *)
(* never reused.  Every command, every media handoff and every claim names *)
(* a call by its token.  All methods run under the store's mutex, so each  *)
(* is one action.                                                          *)
(***************************************************************************)
EXTENDS Integers, FiniteSets

CONSTANTS
    Index,       \* the call indexes the phone uses (bytes, never 0)
    States,      \* the call states the phone reports
    URIs,        \* caller numbers that survive StripURIScheme
    Seed,        \* NewStore's time-derived start value of both counters
    MaxCounter   \* the largest uint64

AllStates == {"Incoming", "Dialing", "Alerting", "Active", "LocallyHeld",
              "RemotelyHeld", "LocallyRemotelyHeld"}

NoURI == ""

ASSUME IndexAssumption == Index \subseteq 1..255
ASSUME CounterAssumption == /\ MaxCounter \in Nat
                            /\ MaxCounter > Cardinality(Index) + 1
                            /\ Seed \in 1..MaxCounter
ASSUME StatesAssumption == States \subseteq AllStates
ASSUME URIsAssumption == NoURI \notin URIs

VARIABLES
    calls,       \* index -> call; an absent index holds NoCall
    claimed,     \* index -> token this side accepted; 0 is Go's absent entry
    identities,  \* index -> caller number; NoURI is absent
    sequence,    \* number of the latest snapshot
    tokens,      \* the token counter
    issued       \* history: every token ever given to a call

vars == <<calls, claimed, identities, sequence, tokens, issued>>

----------------------------------------------------------------------------
NoCall == [state |-> "None", outgoing |-> FALSE, token |-> 0]

Call == {NoCall} \cup
        [state : States, outgoing : BOOLEAN, token : 1..MaxCounter]

(* What ParseCallState makes of one characteristic value: at most one entry *)
(* per index.  A malformed value is rejected before it reaches the store.   *)
NoReport == [state |-> "None", outgoing |-> FALSE]

Report == {NoReport} \cup [state : States, outgoing : BOOLEAN]

CallStateValue == [Index -> Report]

Live(c) == {i \in Index : c[i].state # "None"}

----------------------------------------------------------------------------
(* nextToken: both counters live on the circle 1..MaxCounter, because the  *)
(* code steps over 0; the token counter also steps over the seed.          *)
Advance(t, n) == IF t + n <= MaxCounter THEN t + n ELSE t + n - MaxCounter

StepsToSeed(t) == IF t < Seed THEN Seed - t ELSE Seed - t + MaxCounter

(* Mutant: the token is the counter before it is stepped.                  *)
TokenBeforeStep(t, n) == IF n = 0 THEN t ELSE Advance(t, n - 1)

NthToken(t, n) == Advance(t, IF n < StepsToSeed(t) THEN n ELSE n + 1)

(* Mutant: one token for all the new calls of a value.                     *)
OneRank(i, S) == IF S = {} THEN 0 ELSE 1

Rank(i, S) == Cardinality({j \in S : j <= i})

Fresh(value) == Live(value) \ Live(calls)

(* Apply's loop, in index order: a call whose index was present keeps the  *)
(* token, every other call takes the next one.                             *)
ApplyCalls(value) ==
    [i \in Index |->
        IF value[i].state = "None"
        THEN NoCall
        ELSE [state    |-> value[i].state,
              outgoing |-> value[i].outgoing,
              token    |-> IF calls[i].state # "None"
                           THEN calls[i].token
                           ELSE NthToken(tokens, Rank(i, Fresh(value)))]]

(* Mutant: Apply leaves the claims of ended calls behind.                  *)
AllClaims(next) == claimed

KeptClaims(next) ==
    [i \in Index |->
        IF next[i].state # "None" /\ next[i].token = claimed[i]
        THEN claimed[i] ELSE 0]

KeptIdentities(next) ==
    [i \in Index |-> IF next[i].state # "None" THEN identities[i] ELSE NoURI]

----------------------------------------------------------------------------
Init ==
    /\ calls = [i \in Index |-> NoCall]
    /\ claimed = [i \in Index |-> 0]
    /\ identities = [i \in Index |-> NoURI]
    /\ sequence = Seed
    /\ tokens = Seed
    /\ issued = {}

Apply(value) ==
    LET next == ApplyCalls(value) IN
    /\ calls' = next
    /\ claimed' = KeptClaims(next)
    /\ identities' = KeptIdentities(next)
    /\ sequence' = Advance(sequence, 1)
    /\ tokens' = NthToken(tokens, Cardinality(Fresh(value)))
    /\ issued' = issued \cup {next[i].token : i \in Fresh(value)}

(* Mutant: a new caller number does not renumber the snapshot.             *)
ApplyIncomingCallSilently(index, uri) ==
    /\ identities' = [identities EXCEPT ![index] = uri]
    /\ UNCHANGED <<calls, claimed, sequence, tokens, issued>>

(* setIdentityLocked: a repeated value spends no sequence number.          *)
ApplyIncomingCall(index, uri) ==
    /\ IF identities[index] = uri
       THEN UNCHANGED <<identities, sequence>>
       ELSE /\ identities' = [identities EXCEPT ![index] = uri]
            /\ sequence' = Advance(sequence, 1)
    /\ UNCHANGED <<calls, claimed, tokens, issued>>

ClaimCall(index, token) ==
    /\ claimed' = IF /\ token # 0
                     /\ calls[index].state # "None"
                     /\ calls[index].token = token
                  THEN [claimed EXCEPT ![index] = token]
                  ELSE claimed
    /\ UNCHANGED <<calls, identities, sequence, tokens, issued>>

(* Bound: the counter never completes a lap of the uint64 circle.          *)
WithinOneLap(value) == Cardinality(Fresh(value)) < StepsToSeed(tokens)

Next ==
    \/ \E value \in CallStateValue : WithinOneLap(value) /\ Apply(value)
    \/ \E i \in Index, uri \in URIs \cup {NoURI} : ApplyIncomingCall(i, uri)
    \/ \E i \in Index, t \in issued : ClaimCall(i, t)

Spec == Init /\ [][Next]_vars

----------------------------------------------------------------------------
(* Queries.                                                                *)

AnsweredHere(i) == claimed[i] = calls[i].token

ConnectedIncoming(i) == /\ calls[i].state \notin {"None", "Incoming"}
                        /\ ~calls[i].outgoing

(* HandsetAnswered returns the first match of a Go map iteration, so any   *)
(* member of this set; 0 when it is empty.                                 *)
HandsetAnsweredTokens ==
    {calls[i].token : i \in {j \in Index : ConnectedIncoming(j) /\ ~AnsweredHere(j)}}

(* CurrentCallToken: 0 stands for its ok=false.                            *)
CurrentCallToken ==
    IF \E i \in Index : /\ Live(calls) = {i}
                        /\ ConnectedIncoming(i) => AnsweredHere(i)
    THEN calls[CHOOSE i \in Live(calls) : TRUE].token
    ELSE 0

ValidateIndexedCommand(index, token, opcode) ==
    /\ calls[index].state # "None"
    /\ token # 0
    /\ calls[index].token = token
    /\ \/ opcode = "Accept" /\ calls[index].state = "Incoming"
       \/ opcode = "Terminate"
       \/ /\ opcode = "LocalHold"
          /\ calls[index].state \in {"Incoming", "Active", "RemotelyHeld"}
       \/ /\ opcode = "LocalRetrieve"
          /\ calls[index].state \in {"LocallyHeld", "LocallyRemotelyHeld"}

(* What Snapshot returns, without its number.                              *)
SnapshotCalls ==
    [i \in Live(calls) |-> [call |-> calls[i], identity |-> identities[i]]]

----------------------------------------------------------------------------
(* Every variable keeps its type; no counter and no token is ever zero,    *)
(* which the protocol reserves for `no call'.                              *)
TypeOK ==
    /\ calls \in [Index -> Call]
    /\ claimed \in [Index -> 0..MaxCounter]
    /\ identities \in [Index -> URIs \cup {NoURI}]
    /\ sequence \in 1..MaxCounter
    /\ tokens \in 1..MaxCounter
    /\ issued \subseteq 1..MaxCounter

(* Two calls never share a token, whatever mixture of new, continuing and  *)
(* ended calls each Call State value held: state.go Apply hands out a      *)
(* token per new index and keeps it while the index stays.                 *)
LiveTokensDistinct ==
    \A i, j \in Live(calls) : calls[i].token = calls[j].token => i = j

(* A claim is always for the call that is at that index now: Apply drops   *)
(* the claims of calls that ended, so a claim cannot open the media path   *)
(* for whatever call reuses the index.                                     *)
ClaimsAreForLiveCalls ==
    \A i \in Index : claimed[i] # 0 =>
        /\ calls[i].state # "None"
        /\ calls[i].token = claimed[i]

(* A token is handed out once: a call that gets a token it did not have    *)
(* gets one no call ever had, so a command or a claim that names an ended  *)
(* call can never reach its successor at the same index.                   *)
TokensAreNeverReissued ==
    [][\A i \in Index :
          (calls'[i].token # 0 /\ calls'[i].token # calls[i].token)
             => calls'[i].token \notin issued]_vars

(* setIdentityLocked's rule: the peer discards a snapshot whose number it  *)
(* has seen, so a step that changes what a snapshot would say changes its  *)
(* number.                                                                 *)
ChangedSnapshotIsRenumbered ==
    [][SnapshotCalls' # SnapshotCalls => sequence' # sequence]_vars

============================================================================
