---------------------------- MODULE SendTransaction ----------------------------
(***************************************************************************)
(* send_transaction (core/utils/transaction.py) and its Solana mirror      *)
(* send_svm_versioned_transaction (core/utils/svm_transaction.py): one     *)
(* wallet's calls, running concurrently.  A call is first offered to the   *)
(* backend that broadcasts and pays for it; when the backend turns it down *)
(* the call signs and broadcasts the transaction itself, and then waits    *)
(* until the chain has it.                                                 *)
(*                                                                         *)
(* Both broadcasts of a call do the same thing on chain, so having both is *)
(* doing it twice.  Gas, fees and transaction data are left out: they only *)
(* decide whether a transaction is refused or reverts, which is left open. *)
(***************************************************************************)
EXTENDS Integers, FiniteSets

CONSTANTS
  Calls,
  Solana,        \* calls of send_svm_versioned_transaction
  Remote,        \* calls with a remote wallet on a chain that is sponsored
  Waits,         \* calls with wait_for_receipt, or wait_for_confirmation
  Confirmations, \* blocks from the receipt's on that the call waits for
  Faults         \* "stale" a node's nonce lags, "lost" an answer is lost

ASSUME SendAssumption ==
  /\ IsFiniteSet(Calls)
  /\ Solana \subseteq Calls /\ Remote \subseteq Calls /\ Waits \subseteq Calls
  /\ Solana \subseteq Remote \* Solana has no local signer
  /\ Confirmations \in Nat
  /\ Faults \subseteq {"stale", "lost"}

Routes == {"sponsored", "local"}

VARIABLES
  pc,     \* where each call is
  route,  \* the transaction whose hash the call has
  job,    \* the backend's sponsored submission of each call
  nonce,  \* the nonce each local transaction was signed with
  pool,   \* whether the call's own transaction is in the mempool
  used,   \* transactions of the wallet that were mined: the next nonce
  chain,  \* what each call's transactions did on chain
  depth   \* blocks since the call's transaction was included, that one too

vars == <<pc, route, job, nonce, pool, used, chain, depth>>

Running == {"sponsor", "poll", "prepare", "sign", "receipt", "confirm"}

Ended == {"returned", "raised"}

Init ==
  /\ pc = [c \in Calls |-> "start"]
  /\ route = [c \in Calls |-> "none"]
  /\ job = [c \in Calls |-> "none"]
  /\ nonce = [c \in Calls |-> 0]
  /\ pool = [c \in Calls |-> "none"]
  /\ used = 0
  /\ chain = [c \in Calls |-> [r \in Routes |-> "absent"]]
  /\ depth = [c \in Calls |-> 0]

-----------------------------------------------------------------------------
At(c, step) == pc[c] = step

Goto(c, step) == pc' = [pc EXCEPT ![c] = step]

\* The call has a hash: it waits for the chain, or returns at once.
HasHash(c, r) ==
  /\ route' = [route EXCEPT ![c] = r]
  /\ Goto(c, IF c \in Waits THEN "receipt" ELSE "returned")

Raise(c) == Goto(c, "raised") /\ UNCHANGED route

chainVars == <<used, chain, depth>>

-----------------------------------------------------------------------------
(* The call *)

\* sponsorship_enabled may be off, or fail to answer; on Solana the simulation
\* comes first and may raise.
Begin(c) ==
  /\ At(c, "start")
  /\ \/ c \in Remote /\ Goto(c, "sponsor")
     \/ Goto(c, "prepare")
     \/ c \in Solana /\ Goto(c, "raised")
  /\ UNCHANGED <<route, job, nonce, pool, chainVars>>

\* The backend took the submission; the hash may come with the answer.
Submitted(c) ==
  /\ At(c, "sponsor")
  /\ \/ /\ job' = [job EXCEPT ![c] = "queued"]
        /\ Goto(c, "poll") /\ UNCHANGED route
     \/ /\ job' = [job EXCEPT ![c] = "sent"]
        /\ HasHash(c, "sponsored")
  /\ UNCHANGED <<nonce, pool, chainVars>>

\* 400, 402, 403 or 429: nothing was submitted, and the call broadcasts itself.
Refused(c) ==
  /\ At(c, "sponsor")
  /\ Goto(c, "prepare")
  /\ UNCHANGED <<route, job, nonce, pool, chainVars>>

\* Mutated form of Ambiguous: every failed submission falls back.
AmbiguousFallsBack(c) ==
  /\ At(c, "sponsor")
  /\ Goto(c, "prepare") /\ UNCHANGED route
  /\ \/ UNCHANGED job
     \/ job' = [job EXCEPT ![c] = "queued"]
  /\ UNCHANGED <<nonce, pool, chainVars>>

\* Any other status, or no answer: the backend may have taken it all the same.
Ambiguous(c) ==
  /\ At(c, "sponsor")
  /\ Raise(c)
  /\ \/ UNCHANGED job
     \/ job' = [job EXCEPT ![c] = "queued"]
  /\ UNCHANGED <<nonce, pool, chainVars>>

Polled(c) ==
  /\ At(c, "poll")
  /\ \/ job[c] = "failed" /\ Goto(c, "prepare") /\ UNCHANGED route
     \/ job[c] = "sent" /\ HasHash(c, "sponsored")
  /\ UNCHANGED <<job, nonce, pool, chainVars>>

\* Mutated form of PollEnds: the poll has no deadline and retries its reads.
PollEndsNever(c) ==
  /\ At(c, "poll") /\ job[c] = "failed"
  /\ Raise(c)
  /\ UNCHANGED <<job, nonce, pool, chainVars>>

\* No hash within the timeout, or the status cannot be read.
PollEnds(c) ==
  /\ At(c, "poll")
  /\ Raise(c)
  /\ UNCHANGED <<job, nonce, pool, chainVars>>

PendingNonces == {nonce[c] : c \in {d \in Calls \ Solana : pool[d] = "pending"}}

\* Mutated form of Prepare: the nonce is that of the last transaction.
PrepareLast(c) ==
  /\ At(c, "prepare")
  /\ nonce' = [nonce EXCEPT ![c] = IF c \in Solana THEN 0 ELSE used - 1]
  /\ Goto(c, "sign")
  /\ UNCHANGED <<route, job, pool, chainVars>>

\* The next nonce after the pending ones, as far as the nodes asked know them.
Prepare(c) ==
  /\ At(c, "prepare")
  /\ \E n \in used .. used + Cardinality(Calls) :
       /\ n \notin PendingNonces
       /\ "stale" \in Faults \/ \A m \in used .. n - 1 : m \in PendingNonces
       /\ nonce' = [nonce EXCEPT ![c] = IF c \in Solana THEN 0 ELSE n]
  /\ Goto(c, "sign")
  /\ UNCHANGED <<route, job, pool, chainVars>>

\* The gas estimate, a node or the signer fails.
PrepareFails(c) ==
  /\ At(c, "prepare") \/ At(c, "sign")
  /\ Raise(c)
  /\ UNCHANGED <<job, nonce, pool, chainVars>>

\* Pending transactions of other calls that were signed with the same nonce.
Rivals(c) ==
  {d \in Calls \ Solana : pool[d] = "pending" /\ c \notin Solana /\ nonce[d] = nonce[c]}

\* The node takes it, in place of one with its nonce; the answer may be lost.
Broadcast(c) ==
  /\ At(c, "sign")
  /\ c \in Solana \/ nonce[c] >= used
  /\ pool' = [d \in Calls |-> IF d = c THEN "pending"
                              ELSE IF d \in Rivals(c) THEN "replaced" ELSE pool[d]]
  /\ \/ HasHash(c, "local")
     \/ "lost" \in Faults /\ Raise(c)
  /\ UNCHANGED <<job, nonce, chainVars>>

\* The nonce is used, its holder pays as much, or the blockhash has expired.
BroadcastRefused(c) ==
  /\ At(c, "sign")
  /\ c \in Solana \/ nonce[c] < used \/ Rivals(c) # {}
  /\ Raise(c)
  /\ UNCHANGED <<job, nonce, pool, chainVars>>

\* Mutated form of Receipt: any receipt will do.
ReceiptAny(c) ==
  /\ At(c, "receipt")
  /\ chain[c][route[c]] # "absent"
  /\ Goto(c, "confirm")
  /\ UNCHANGED <<route, job, nonce, pool, chainVars>>

\* A node has the receipt; status 0 is raised as a revert.
Receipt(c) ==
  /\ At(c, "receipt")
  /\ \/ chain[c][route[c]] = "done" /\ Goto(c, "confirm")
     \/ chain[c][route[c]] = "reverted" /\ Goto(c, "raised")
  /\ UNCHANGED <<route, job, nonce, pool, chainVars>>

\* The first node to answer has none, in time or at all.
ReceiptFails(c) ==
  /\ At(c, "receipt")
  /\ Raise(c)
  /\ UNCHANGED <<job, nonce, pool, chainVars>>

\* The loop over the block numbers has no timeout of its own.
Confirmed(c) ==
  /\ At(c, "confirm")
  /\ depth[c] >= Confirmations \/ c \in Solana
  /\ Goto(c, "returned")
  /\ UNCHANGED <<route, job, nonce, pool, chainVars>>

ConfirmFails(c) ==
  /\ At(c, "confirm") /\ c \notin Solana
  /\ Raise(c)
  /\ UNCHANGED <<job, nonce, pool, chainVars>>

-----------------------------------------------------------------------------
(* The backend and the chain, which run on whatever the call was told *)

\* A submission is broadcast, or fails before it is.
BackendSends(c) ==
  /\ job[c] = "queued"
  /\ \E result \in {"sent", "failed"} : job' = [job EXCEPT ![c] = result]
  /\ UNCHANGED <<pc, route, nonce, pool, chainVars>>

Deepen(included) ==
  depth' = [c \in Calls |-> IF (c \in included \/ depth[c] > 0) /\ depth[c] < Confirmations
                            THEN depth[c] + 1 ELSE depth[c]]

Include(c, r) ==
  /\ \E result \in {"done", "reverted"} : chain' = [chain EXCEPT ![c][r] = result]
  /\ Deepen({c})

\* A transaction the backend broadcast is included; it takes no nonce of ours.
MineSponsored(c) ==
  /\ job[c] = "sent" /\ chain[c]["sponsored"] = "absent"
  /\ Include(c, "sponsored")
  /\ UNCHANGED <<pc, route, job, nonce, pool, used>>

\* The pending transaction with the next nonce is included.
MineLocal(c) ==
  /\ pool[c] = "pending"
  /\ c \in Solana \/ nonce[c] = used
  /\ Include(c, "local")
  /\ pool' = [pool EXCEPT ![c] = "mined"]
  /\ used' = IF c \in Solana THEN used ELSE used + 1
  /\ UNCHANGED <<pc, route, job, nonce>>

\* A block with none of these transactions, counted while someone waits for it.
EmptyBlock ==
  /\ \E c \in Calls : depth[c] \in 1 .. Confirmations - 1
  /\ Deepen({})
  /\ UNCHANGED <<pc, route, job, nonce, pool, used, chain>>

-----------------------------------------------------------------------------
Step(c) ==
  \/ Submitted(c) \/ Refused(c) \/ Ambiguous(c) \/ Polled(c) \/ PollEnds(c)
  \/ Prepare(c) \/ PrepareFails(c) \/ Broadcast(c) \/ BroadcastRefused(c)
  \/ Receipt(c) \/ ReceiptFails(c) \/ Confirmed(c) \/ ConfirmFails(c)

Next ==
  \/ \E c \in Calls :
       Begin(c) \/ Step(c) \/ BackendSends(c) \/ MineSponsored(c) \/ MineLocal(c)
  \/ EmptyBlock

Spec == Init /\ [][Next]_vars

\* Every request is answered or times out, and the chain goes on.
LiveSpec == Spec /\ WF_vars(EmptyBlock) /\ \A c \in Calls : WF_vars(Step(c))

-----------------------------------------------------------------------------
(* Properties *)

\* The calls, the backend and the chain hold what their types allow.
TypeOK ==
  /\ pc \in [Calls -> {"start"} \cup Running \cup Ended]
  /\ route \in [Calls -> Routes \cup {"none"}]
  /\ job \in [Calls -> {"none", "queued", "sent", "failed"}]
  /\ nonce \in [Calls -> Nat] /\ used \in Nat
  /\ pool \in [Calls -> {"none", "pending", "replaced", "mined"}]
  /\ chain \in [Calls -> [Routes -> {"absent", "done", "reverted"}]]
  /\ depth \in [Calls -> Nat]

\* A call never takes effect twice, whatever the backend answered, failed or
\* did late: the fallback only follows a submission that reached no chain.
OneEffect ==
  \A c \in Calls : \A r1, r2 \in Routes :
    chain[c][r1] # "absent" /\ chain[c][r2] # "absent" => r1 = r2

\* A call that waited and returned is on chain by the hash it returned, and did
\* not revert, also when another call took its nonce.
ReturnedIsMined ==
  \A c \in Waits : At(c, "returned") =>
    chain[c][route[c]] = "done" /\ (c \in Solana \/ depth[c] >= Confirmations)

\* Every call ends, with its hash or an error, though the backend may never
\* give a hash and the chain never a receipt.
CallsEnd == \A c \in Calls : pc[c] # "start" ~> pc[c] \in Ended
=============================================================================
