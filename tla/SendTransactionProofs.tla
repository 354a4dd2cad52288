------------------------- MODULE SendTransactionProofs -------------------------
(***************************************************************************)
(* Proofs about SendTransaction, for any number of concurrent calls.  The  *)
(* call's own broadcast and the backend's exclude each other because the   *)
(* fallback is only entered with a submission that was never made or has   *)
(* failed, and neither can come back to life.                              *)
(***************************************************************************)
EXTENDS SendTransaction, FiniteSetTheorems, TLAPS

\* Until the backend is asked there is no submission, and whoever broadcasts
\* has none that may still be sent.
FallbackIsAlone ==
  \A c \in Calls :
    /\ pc[c] \in {"start", "sponsor"} => job[c] = "none"
    /\ pc[c] \in {"prepare", "sign"} \/ pool[c] # "none" => job[c] \in {"none", "failed"}
    /\ pool[c] # "none" => pc[c] \in {"receipt", "confirm"} \cup Ended

\* Only what was broadcast is on chain.
ChainIsFed ==
  \A c \in Calls :
    /\ chain[c]["sponsored"] # "absent" => job[c] = "sent"
    /\ chain[c]["local"] # "absent" => pool[c] = "mined"

\* A call that waits for the chain has a hash, and what it saw there stays.
HashIsHeld ==
  \A c \in Calls :
    /\ pc[c] \in {"receipt", "confirm"} => route[c] \in Routes
    /\ pc[c] = "returned" /\ c \in Waits => route[c] \in Routes
    /\ pc[c] = "confirm" => chain[c][route[c]] = "done"

\* The inductive invariant.
IInv == TypeOK /\ FallbackIsAlone /\ ChainIsFed /\ HashIsHeld /\ ReturnedIsMined

-----------------------------------------------------------------------------
\* The initial state satisfies the invariant.
LEMMA InitIInv == Init => IInv
<1> SUFFICES ASSUME Init PROVE IInv
  OBVIOUS
<1> USE DEF Init
<1>1. TypeOK
  BY DEF TypeOK
<1>2. FallbackIsAlone
  BY DEF FallbackIsAlone
<1>3. ChainIsFed
  BY DEF ChainIsFed, Routes
<1>4. HashIsHeld /\ ReturnedIsMined
  BY SendAssumption DEF HashIsHeld, ReturnedIsMined, At
<1> QED
  BY <1>1, <1>2, <1>3, <1>4 DEF IInv

\* A block only deepens what was included.
LEMMA DeepenType ==
  ASSUME TypeOK, NEW S, Deepen(S)
  PROVE  depth' \in [Calls -> Nat] /\ \A c \in Calls : depth'[c] >= depth[c]
  BY SendAssumption DEF TypeOK, Deepen

\* A step of a call leaves the chain alone and preserves the invariant.
LEMMA CallStep ==
  ASSUME IInv, NEW c \in Calls, Begin(c) \/ Step(c)
  PROVE  IInv'
<1> USE SendAssumption
<1> USE DEF IInv, TypeOK, FallbackIsAlone, ChainIsFed, HashIsHeld,
            ReturnedIsMined, Running, Ended, Routes, At, Goto, HasHash, Raise,
            chainVars
<1>1. CASE Begin(c)
  <2>1. TypeOK'
    BY <1>1 DEF Begin
  <2>2. FallbackIsAlone'
    BY <1>1 DEF Begin
  <2>3. ChainIsFed'
    BY <1>1 DEF Begin
  <2>4. HashIsHeld' /\ ReturnedIsMined'
    BY <1>1 DEF Begin
  <2> QED
    BY <2>1, <2>2, <2>3, <2>4
<1>2. CASE Submitted(c)
  <2>1. TypeOK'
    <3>1. /\ pc' \in [Calls -> {"start"} \cup Running \cup Ended]
          /\ route' \in [Calls -> Routes \cup {"none"}]
      BY <1>2 DEF Submitted
    <3>2. job' \in [Calls -> {"none", "queued", "sent", "failed"}]
      BY <1>2 DEF Submitted
    <3> QED
      BY <1>2, <3>1, <3>2 DEF Submitted
  <2>2. FallbackIsAlone'
    BY <1>2 DEF Submitted
  <2>3. ChainIsFed'
    BY <1>2 DEF Submitted
  <2>4. HashIsHeld' /\ ReturnedIsMined'
    BY <1>2 DEF Submitted
  <2> QED
    BY <2>1, <2>2, <2>3, <2>4
<1>3. CASE Refused(c)
  BY <1>3 DEF Refused
<1>4. CASE Ambiguous(c)
  BY <1>4 DEF Ambiguous
<1>5. CASE Polled(c)
  <2>1. TypeOK'
    <3>1. /\ pc' \in [Calls -> {"start"} \cup Running \cup Ended]
          /\ route' \in [Calls -> Routes \cup {"none"}]
      BY <1>5 DEF Polled
    <3>2. job' \in [Calls -> {"none", "queued", "sent", "failed"}]
      BY <1>5 DEF Polled
    <3> QED
      BY <1>5, <3>1, <3>2 DEF Polled
  <2>2. FallbackIsAlone'
    BY <1>5 DEF Polled
  <2>3. ChainIsFed'
    BY <1>5 DEF Polled
  <2>4. HashIsHeld' /\ ReturnedIsMined'
    BY <1>5 DEF Polled
  <2> QED
    BY <2>1, <2>2, <2>3, <2>4
<1>6. CASE PollEnds(c) \/ PrepareFails(c) \/ BroadcastRefused(c) \/ ReceiptFails(c)
           \/ ConfirmFails(c)
  <2>1. /\ pc[c] \in Running /\ pc' = [pc EXCEPT ![c] = "raised"]
        /\ pc[c] # "sponsor"
        /\ UNCHANGED <<route, job, nonce, pool, chainVars>>
    BY <1>6 DEF PollEnds, PrepareFails, BroadcastRefused, ReceiptFails, ConfirmFails
  <2>2. TypeOK'
    BY <2>1
  <2> QED
    BY <2>1, <2>2
<1>7. CASE Prepare(c)
  <2>1. PICK n \in used .. used + Cardinality(Calls) :
          nonce' = [nonce EXCEPT ![c] = IF c \in Solana THEN 0 ELSE n]
    BY <1>7 DEF Prepare
  <2>2. n \in Nat
    BY <2>1, FS_CardinalityType
  <2> QED
    BY <1>7, <2>1, <2>2 DEF Prepare
<1>8. CASE Broadcast(c)
  <2>1. /\ pc[c] = "sign" /\ pool[c] = "none" /\ job[c] \in {"none", "failed"}
        /\ UNCHANGED <<job, nonce, used, chain, depth>>
    BY <1>8 DEF Broadcast
  <2>2. \A d \in Calls : /\ d = c => pool'[d] = "pending"
                         /\ d # c => pool'[d] = pool[d] \/
                                     (pool[d] = "pending" /\ pool'[d] = "replaced")
    BY <1>8 DEF Broadcast, Rivals
  <2>3. pool' \in [Calls -> {"none", "pending", "replaced", "mined"}]
    BY <1>8 DEF Broadcast
  <2>4. /\ pc' \in [Calls -> {"start"} \cup Running \cup Ended]
        /\ route' \in [Calls -> Routes \cup {"none"}]
        /\ \A d \in Calls \ {c} : pc'[d] = pc[d] /\ route'[d] = route[d]
        /\ \/ pc'[c] = "receipt" /\ route'[c] = "local"
           \/ pc'[c] = "returned" /\ c \notin Waits
           \/ pc'[c] = "raised"
    BY <1>8 DEF Broadcast
  <2> QED
    BY <2>1, <2>2, <2>3, <2>4
<1>9. CASE Receipt(c)
  <2>1. TypeOK'
    BY <1>9 DEF Receipt
  <2>2. FallbackIsAlone'
    BY <1>9 DEF Receipt
  <2>3. ChainIsFed'
    BY <1>9 DEF Receipt
  <2>4. HashIsHeld' /\ ReturnedIsMined'
    BY <1>9 DEF Receipt
  <2> QED
    BY <2>1, <2>2, <2>3, <2>4
<1>10. CASE Confirmed(c)
  BY <1>10 DEF Confirmed
<1> QED
  BY <1>1, <1>2, <1>3, <1>4, <1>5, <1>6, <1>7, <1>8, <1>9, <1>10 DEF Step

\* A step of the backend or the chain preserves the invariant.
LEMMA WorldStep ==
  ASSUME IInv,
         EmptyBlock \/ \E c \in Calls : BackendSends(c) \/ MineSponsored(c) \/ MineLocal(c)
  PROVE  IInv'
<1> USE SendAssumption
<1> USE DEF IInv, TypeOK, FallbackIsAlone, ChainIsFed, HashIsHeld,
            ReturnedIsMined, Running, Ended, Routes, At
<1>1. CASE EmptyBlock
  BY <1>1, DeepenType DEF EmptyBlock
<1>2. ASSUME NEW c \in Calls, BackendSends(c)
      PROVE  IInv'
  <2>1. /\ job[c] = "queued" /\ UNCHANGED <<pc, route, nonce, pool, used, chain, depth>>
        /\ job' \in [Calls -> {"none", "queued", "sent", "failed"}]
        /\ \A d \in Calls \ {c} : job'[d] = job[d]
    BY <1>2 DEF BackendSends, chainVars
  <2> QED
    BY <2>1
<1>3. ASSUME NEW c \in Calls, NEW r \in Routes, Include(c, r),
             chain[c][r] = "absent", UNCHANGED <<pc, route, job, nonce>>,
             pool' \in [Calls -> {"none", "pending", "replaced", "mined"}],
             used' \in Nat,
             \A d \in Calls : /\ pool[d] = "none" <=> pool'[d] = "none"
                              /\ pool[d] = "mined" => pool'[d] = "mined",
             r = "sponsored" => job[c] = "sent",
             r = "local" => pool'[c] = "mined"
      PROVE  IInv'
  <2>1. PICK result \in {"done", "reverted"} : chain' = [chain EXCEPT ![c][r] = result]
    BY <1>3 DEF Include
  <2>2. depth' \in [Calls -> Nat] /\ \A d \in Calls : depth'[d] >= depth[d]
    BY <1>3, DeepenType DEF Include
  <2>3. \A d \in Calls, q \in Routes :
          chain'[d][q] = IF d = c /\ q = r THEN result ELSE chain[d][q]
    BY <2>1
  <2>4. chain' \in [Calls -> [Routes -> {"absent", "done", "reverted"}]]
    BY <2>1
  <2>5. ChainIsFed'
    BY <1>3, <2>3
  <2>6. HashIsHeld' /\ ReturnedIsMined'
    BY <1>3, <2>2, <2>3
  <2> QED
    BY <1>3, <2>2, <2>4, <2>5, <2>6
<1>4. ASSUME NEW c \in Calls, MineSponsored(c)
      PROVE  IInv'
  BY <1>3, <1>4 DEF MineSponsored
<1>5. ASSUME NEW c \in Calls, MineLocal(c)
      PROVE  IInv'
  <2>1. /\ pool' = [pool EXCEPT ![c] = "mined"] /\ pool[c] = "pending"
        /\ Include(c, "local") /\ used' \in Nat
        /\ UNCHANGED <<pc, route, job, nonce>>
    BY <1>5 DEF MineLocal
  <2> QED
    BY <1>3, <2>1
<1> QED
  BY <1>1, <1>2, <1>4, <1>5

\* The invariant holds in every reachable state.
LEMMA Invariance == Spec => []IInv
<1>1. IInv /\ UNCHANGED vars => IInv'
  BY DEF IInv, TypeOK, FallbackIsAlone, ChainIsFed, HashIsHeld,
         ReturnedIsMined, At, vars
<1>2. IInv /\ [Next]_vars => IInv'
  BY <1>1, CallStep, WorldStep DEF Next
<1> QED
  BY InitIInv, <1>2, PTL DEF Spec

-----------------------------------------------------------------------------
\* Calls, backend and chain stay within their types.
THEOREM SendTypes == Spec => []TypeOK
<1>1. IInv => TypeOK
  BY DEF IInv
<1> QED
  BY <1>1, Invariance, PTL

\* No call takes effect twice: the fallback of send_transaction never follows a
\* submission that can still reach the chain.
THEOREM OneEffectTheorem == Spec => []OneEffect
<1>1. IInv => OneEffect
  BY DEF IInv, TypeOK, FallbackIsAlone, ChainIsFed, OneEffect, Routes
<1> QED
  BY <1>1, Invariance, PTL

\* What a call that waits returns is on chain and did not revert, whichever
\* other calls took or replaced its nonce.
THEOREM ReturnedTheorem == Spec => []ReturnedIsMined
<1>1. IInv => ReturnedIsMined
  BY DEF IInv
<1> QED
  BY <1>1, Invariance, PTL
=============================================================================
