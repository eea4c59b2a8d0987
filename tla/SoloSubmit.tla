----------------------------- MODULE SoloSubmit -----------------------------
(***************************************************************************)
(* Solo solutions on their way to the chain: FarmClient::submitWorkSolo,    *)
(* getNextNonce, txSignSend and checkPendingTransactions                    *)
(* (ethminer/FarmClient.h), in several mining rigs that share a node, a     *)
(* challenge folder (option ChallengeFolder) and possibly an account.       *)
(*                                                                          *)
(* The node with its pool of transactions and the token contract are        *)
(* outside of the repository; they are modelled by what the client relies   *)
(* on: an account's transactions are mined in the order of their nonces, a  *)
(* nonce is used once, and a mint that solves the contract's present        *)
(* challenge replaces it by the next one, unless it fails for want of gas.  *)
(*                                                                          *)
(* Left out: gas otherwise, signatures, and the solution itself (of a       *)
(* solution only its challenge is kept).                                    *)
(***************************************************************************)
EXTENDS Integers, FiniteSets

CONSTANTS Rigs,         \* processes that mine, one FarmClient each
          Accounts,     \* user accounts
          MaxChallenge, \* bound: the last challenge of the contract
          MaxFinds,     \* bound: how many solutions are found
          MaxFaults     \* bound: how often something fails

ASSUME ChallengeAssumption == MaxChallenge \in Nat \ {0}
ASSUME BoundsAssumption == MaxFinds \in Nat /\ MaxFaults \in Nat

VARIABLES folder,  \* is a challenge folder configured?
          account, \* of each rig
          file,    \* challenge.txt: Nothing when it is missing or empty
          pc,      \* where each rig's main thread is
          sol,     \* the challenge of the solution it submits, or Nothing
          txNonce, \* m_txNonce
          fresh,   \* was the nonce read from the node for this solution?
          pending, \* m_pendingTxs
          pool,    \* the node's transactions that are not yet mined
          mined,   \* those that are
          failed,  \* those of the mined that would have solved their challenge
          count,   \* how many of each account, eth_getTransactionCount
          current, \* the contract's challenge
          lost,    \* history: nonces whose transaction the node never got, or lost
          finds,   \* solutions found so far
          faults,  \* calls and files that failed, restarts, lost transactions
          vain     \* history: challenges of which a submission came to nothing

config == <<folder, account>>
rig == <<pc, sol, txNonce, fresh, pending>>
node == <<pool, mined, failed, count, current>>
bounds == <<finds, faults>>
vars == <<config, file, rig, node, bounds, lost, vain>>

Nothing == 0
Unset == -1
Tx == [rig : Rigs, account : Accounts, nonce : Nat, challenge : 1 .. MaxChallenge]

TypeOK == /\ folder \in BOOLEAN /\ account \in [Rigs -> Accounts]
          /\ file \in 0 .. MaxChallenge
          /\ pc \in [Rigs -> {"idle", "check", "open", "write", "nonce", "send", "sent"}]
          /\ sol \in [Rigs -> 0 .. MaxChallenge]
          /\ \A r \in Rigs : pc[r] # "idle" => sol[r] # Nothing
          /\ txNonce \in [Rigs -> Nat \cup {Unset}]
          /\ fresh \in [Rigs -> BOOLEAN]
          /\ pending \in [Rigs -> SUBSET Tx]
          /\ pool \subseteq Tx /\ mined \subseteq Tx /\ failed \subseteq mined
          /\ count \in [Accounts -> Nat]
          /\ current \in 1 .. MaxChallenge + 1
          /\ lost \in [Accounts -> SUBSET Nat]
          /\ finds \in 0 .. MaxFinds /\ faults \in 0 .. MaxFaults
          /\ vain \subseteq 1 .. MaxChallenge

Init == /\ folder \in BOOLEAN /\ account \in [Rigs -> Accounts]
        /\ file = Nothing
        /\ pc = [r \in Rigs |-> "idle"]
        /\ sol = [r \in Rigs |-> Nothing]
        /\ txNonce = [r \in Rigs |-> Unset]
        /\ fresh = [r \in Rigs |-> FALSE]
        /\ pending = [r \in Rigs |-> {}]
        /\ pool = {} /\ mined = {} /\ failed = {}
        /\ count = [a \in Accounts |-> 0]
        /\ current = 1
        /\ finds = 0 /\ faults = 0 /\ lost = [a \in Accounts |-> {}] /\ vain = {}

Goto(r, place) == pc' = [pc EXCEPT ![r] = place]

\* Faulty: the solution is gone, the submission goes on.
ReturnNot(r) == /\ UNCHANGED pc
                /\ sol' = [sol EXCEPT ![r] = Nothing]
                /\ fresh' = [fresh EXCEPT ![r] = FALSE]

\* submitWorkSolo returns or throws, its variables are gone.
Return(r) == /\ Goto(r, "idle")
             /\ sol' = [sol EXCEPT ![r] = Nothing]
             /\ fresh' = [fresh EXCEPT ![r] = FALSE]

Fault == faults < MaxFaults /\ faults' = faults + 1

NextTx(r) == [rig |-> r, account |-> account[r], nonce |-> txNonce[r],
              challenge |-> sol[r]]
-----------------------------------------------------------------------------
(* The node *)

SameSlot(t, u) == t.account = u.account /\ t.nonce = u.nonce

ComesToNothing(c) == vain' = IF folder THEN vain \cup {c} ELSE vain

\* A transaction is mined when its turn has come; the mint of a challenge
\* that is solved already fails, that of another may, for want of gas.
Mine(t) == /\ t \in pool
           /\ t.nonce = count[t.account]
           /\ pool' = pool \ {t} /\ mined' = mined \cup {t}
           /\ count' = [count EXCEPT ![t.account] = @ + 1]
           /\ lost' = [lost EXCEPT ![t.account] = @ \ {t.nonce}]
           /\ \/ /\ current' = IF t.challenge = current THEN current + 1 ELSE current
                 /\ vain' = vain \ {t.challenge}
                 /\ UNCHANGED <<failed, faults>>
              \/ /\ t.challenge = current
                 /\ failed' = failed \cup {t}
                 /\ ComesToNothing(t.challenge)
                 /\ Fault
                 /\ UNCHANGED current
           /\ UNCHANGED <<finds, config, file, rig>>

\* Somebody else solves the challenge.
Advance == /\ current <= MaxChallenge
           /\ current' = current + 1
           /\ UNCHANGED <<bounds, config, file, rig, pool, mined, failed, count, lost, vain>>

\* The node drops a transaction from its pool.
Evict(t) == /\ t \in pool
            /\ pool' = pool \ {t}
            /\ lost' = [lost EXCEPT ![t.account] = @ \cup {t.nonce}]
            /\ ComesToNothing(t.challenge)
            /\ Fault
            /\ UNCHANGED <<finds, config, file, rig, mined, failed, count, current>>
-----------------------------------------------------------------------------
(* submitWorkSolo *)

\* doGetWork takes a solution; the node may not have told it yet that the
\* challenge is solved.
Find(r, c) == /\ pc[r] = "idle"
              /\ finds < MaxFinds /\ finds' = finds + 1
              /\ sol' = [sol EXCEPT ![r] = c]
              /\ Goto(r, IF folder THEN "check" ELSE "nonce")
              /\ UNCHANGED <<faults, config, file, txNonce, fresh, pending, node, lost, vain>>

\* Another rig submitted a solution of this challenge.
Skip(r) == /\ pc[r] = "check" /\ file = sol[r]
           /\ Return(r)
           /\ UNCHANGED <<bounds, config, file, txNonce, pending, node, lost, vain>>

Claim(r) == /\ pc[r] = "check" /\ file # sol[r]
            /\ Goto(r, "open")
            /\ UNCHANGED <<bounds, config, file, sol, txNonce, fresh, pending, node, lost, vain>>

\* An error of the file system is logged, and the submission goes on.
FileError(r) == /\ pc[r] \in {"check", "open"}
                /\ Goto(r, "nonce")
                /\ Fault
                /\ UNCHANGED <<finds, config, file, sol, txNonce, fresh, pending, node, lost, vain>>

\* Opening the file for output empties it ...
OpenFile(r) == /\ pc[r] = "open"
               /\ file' = Nothing
               /\ Goto(r, "write")
               /\ UNCHANGED <<bounds, config, sol, txNonce, fresh, pending, node, lost, vain>>

\* Faulty: the contract's challenge is written, not the one that was solved.
WriteCurrent(r) == /\ pc[r] = "write"
                   /\ file' = IF current <= MaxChallenge THEN current ELSE sol[r]
                   /\ Goto(r, "nonce")
                   /\ UNCHANGED <<bounds, config, sol, txNonce, fresh, pending, node, lost, vain>>

\* ... and closing it writes the challenge.
WriteFile(r) == /\ pc[r] = "write"
                /\ file' = sol[r]
                /\ Goto(r, "nonce")
                /\ UNCHANGED <<bounds, config, sol, txNonce, fresh, pending, node, lost, vain>>

\* Faulty: a nonce that was read once is never read again.
TakeNonceOnce(r) ==
    /\ pc[r] = "nonce"
    /\ \E quiet \in BOOLEAN : fresh' = [fresh EXCEPT ![r] = quiet \/ txNonce[r] = Unset]
    /\ txNonce' = [txNonce EXCEPT ![r] = IF @ = Unset THEN count[account[r]] ELSE @ + 1]
    /\ Goto(r, "send")
    /\ UNCHANGED <<bounds, config, file, sol, pending, node, lost, vain>>

\* Faulty: the count is taken for the last nonce used, not for the next one.
TakeNonceAfter(r) ==
    /\ pc[r] = "nonce"
    /\ \E quiet \in BOOLEAN : fresh' = [fresh EXCEPT ![r] = quiet \/ txNonce[r] = Unset]
    /\ txNonce' = [txNonce EXCEPT ![r] = IF fresh'[r] THEN count[account[r]] + 1 ELSE @ + 1]
    /\ Goto(r, "send")
    /\ UNCHANGED <<bounds, config, file, sol, pending, node, lost, vain>>

\* The nonce: asked of the node at first and when the last solution is more
\* than five minutes ago (quiet), else the last one plus one.
TakeNonce(r) ==
    /\ pc[r] = "nonce"
    /\ \E quiet \in BOOLEAN : fresh' = [fresh EXCEPT ![r] = quiet \/ txNonce[r] = Unset]
    /\ txNonce' = [txNonce EXCEPT ![r] = IF fresh'[r] THEN count[account[r]] ELSE @ + 1]
    /\ Goto(r, "send")
    /\ UNCHANGED <<bounds, config, file, sol, pending, node, lost, vain>>

Wasted(r) == ComesToNothing(sol[r])

\* getNextNonce throws: the solution is lost.
NonceError(r) == /\ pc[r] = "nonce"
                 /\ Wasted(r)
                 /\ Return(r)
                 /\ Fault
                 /\ UNCHANGED <<finds, config, file, txNonce, pending, node, lost>>

\* eth_sendRawTransaction: the node takes the transaction, in the place of
\* one with the same nonce if it pays enough.  The answer may be lost.
Send(r) == /\ pc[r] = "send"
           /\ txNonce[r] >= count[account[r]]
           /\ LET replaced == {t \in pool : SameSlot(t, NextTx(r))} IN
                /\ pool' = (pool \ replaced) \cup {NextTx(r)}
                /\ vain' = IF folder THEN vain \cup {t.challenge : t \in replaced} ELSE vain
           /\ lost' = [lost EXCEPT ![account[r]] = @ \ {txNonce[r]}]
           /\ \/ Goto(r, "sent") /\ UNCHANGED <<sol, fresh, faults>>
              \/ Return(r) /\ Fault
           /\ UNCHANGED <<finds, config, file, txNonce, pending, mined, failed, count,
                          current>>

\* The node refuses: the nonce is used, or taken by a waiting transaction.
Refused(r) == /\ pc[r] = "send"
              /\ \/ txNonce[r] < count[account[r]]
                 \/ \E t \in pool : SameSlot(t, NextTx(r))
              /\ Wasted(r)
              /\ Return(r)
              /\ UNCHANGED <<bounds, config, file, txNonce, pending, node, lost>>

\* The call does not reach the node: the nonce is spent for nothing.
SendError(r) == /\ pc[r] = "send"
                /\ Wasted(r)
                /\ lost' = [lost EXCEPT ![account[r]] = @ \cup {txNonce[r]}]
                /\ Return(r)
                /\ Fault
                /\ UNCHANGED <<finds, config, file, txNonce, pending, node>>

Record(r) == /\ pc[r] = "sent"
             /\ pending' = [pending EXCEPT ![r] = @ \cup {NextTx(r)}]
             /\ Return(r)
             /\ UNCHANGED <<bounds, config, file, txNonce, node, lost, vain>>

\* Faulty: a transaction that the node does not know is given up as well.
CheckPendingNotFound(r) ==
    /\ pc[r] = "idle"
    /\ \E done \in SUBSET (pending[r] \ pool) :
         pending' = [pending EXCEPT ![r] = {t \in @ : \A d \in done : t.challenge # d.challenge}]
    /\ UNCHANGED <<bounds, config, file, pc, sol, txNonce, fresh, node, lost, vain>>

\* checkPendingTransactions: what is found to be mined goes, with all of the
\* same challenge, whether it succeeded or failed.  The calls are made one
\* after the other and may fail, so any of the mined ones may be missed.
CheckPending(r) ==
    /\ pc[r] = "idle"
    /\ \E done \in SUBSET (pending[r] \cap mined) :
         pending' = [pending EXCEPT ![r] = {t \in @ : \A d \in done : t.challenge # d.challenge}]
    /\ UNCHANGED <<bounds, config, file, pc, sol, txNonce, fresh, node, lost, vain>>

\* The rig is started again, or its main loop entered anew after a failover:
\* the FarmClient is a new one.
Restart(r) == /\ IF pc[r] \in {"nonce", "send"} THEN Wasted(r) ELSE UNCHANGED vain
              /\ Return(r)
              /\ txNonce' = [txNonce EXCEPT ![r] = Unset]
              /\ pending' = [pending EXCEPT ![r] = {}]
              /\ Fault
              /\ UNCHANGED <<finds, config, file, node, lost>>

SubmitWorkSolo(r) == \/ Skip(r) \/ Claim(r) \/ FileError(r) \/ OpenFile(r) \/ WriteFile(r)
                     \/ TakeNonce(r) \/ NonceError(r)
                     \/ Send(r) \/ Refused(r) \/ SendError(r) \/ Record(r)

RigStep(r) == \/ \E c \in {current, current - 1} \cap (1 .. MaxChallenge) : Find(r, c)
              \/ SubmitWorkSolo(r) \/ CheckPending(r) \/ Restart(r)

MineAny(a) == \E t \in pool : t.account = a /\ Mine(t)

Next == (\E r \in Rigs : RigStep(r)) \/ (\E t \in pool : Mine(t) \/ Evict(t)) \/ Advance

Spec == Init /\ [][Next]_vars

\* Miners of the chain take what can be mined.
FairSpec == Spec /\ \A a \in Accounts : WF_vars(MineAny(a))
-----------------------------------------------------------------------------
(* Properties *)

Nonces(a) == {t.nonce : t \in {u \in pool : u.account = a}}

(* The client leaves no gap in its account's nonces: each one from the next *)
(* to be mined to the last that a rig used waits in the node's pool, is     *)
(* being sent, or was lost by a failed call or by the node - so nothing     *)
(* else can hold up later transactions, also when rigs share the account    *)
(* and read and count their nonces independently (FarmClient.h:202-207).    *)
NoGaps == \A r \in Rigs : \A n \in count[account[r]] .. txNonce[r] :
              \/ n \in Nonces(account[r]) \cup lost[account[r]]
              \/ pc[r] = "send" /\ n = txNonce[r]

(* After five minutes without a solution a gap heals: a nonce that was read *)
(* from the node and whose transaction the node took is used up in the end, *)
(* unless the node loses the transaction - it does not wait for others that *)
(* never come (FarmClient.h:202-205, 260-267).                              *)
FreshSettles ==
    \A r \in Rigs : \A n \in 0 .. MaxFinds - 1 :
        pc[r] = "sent" /\ fresh[r] /\ txNonce[r] = n
            ~> count[account[r]] > n \/ n \in lost[account[r]]

\* Rig r drops its solution because of what it reads in challenge.txt.
Skips(r) == pc[r] = "check" /\ file = sol[r]

Submitted(c) == \/ \E t \in pool \cup mined : t.challenge = c
                \/ \E r \in Rigs : pc[r] \in {"nonce", "send", "sent"} /\ sol[r] = c

(* A rig gives a solution up for another rig's only if a solution of this   *)
(* challenge was sent or is about to be - or if sending one came to nothing,*)
(* which the file does not tell (FarmClient.h:168-190).                     *)
SkipsWithReason == \A r \in Rigs : Skips(r) => Submitted(sol[r]) \/ sol[r] \in vain

(* The same without the exception: "check if any other miner in our farm    *)
(* already submitted a solution for this challenge" (FarmClient.h:168).     *)
SkipsOnlySubmitted == \A r \in Rigs : Skips(r) => Submitted(sol[r])

\* Rig r follows a transaction that has failed although c was not solved.
GivenUp(r, c) == \E u \in pending[r] \cap failed : u.challenge = c

(* A transaction is followed until its challenge is solved, be it by this   *)
(* transaction or another (FarmClient.h:343-376) - or the client replaced.  *)
(* But when one of the client's transactions fails while the challenge is   *)
(* not solved, all of that challenge go, also one that may still solve it   *)
(* (FarmClient.h:358-362).                                                  *)
FollowedToTheEnd == [][\A r \in Rigs : \A t \in pending[r] \ pending'[r] :
                          \/ t.challenge < current
                          \/ GivenUp(r, t.challenge)
                          \/ txNonce'[r] = Unset]_vars
=============================================================================
