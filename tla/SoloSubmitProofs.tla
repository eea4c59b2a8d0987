-------------------------- MODULE SoloSubmitProofs --------------------------
(***************************************************************************)
(* Proofs about module SoloSubmit for any number of rigs, accounts,         *)
(* solutions, challenges and faults.                                        *)
(***************************************************************************)
EXTENDS SoloSubmit, TLAPS

\* Who sends a transaction has a nonce for it.
HasNonce == \A r \in Rigs : pc[r] \in {"send", "sent"} => txNonce[r] # Unset

\* Nobody is ahead of the contract, and what was mined is solved, or failed.
Ordered == /\ \A r \in Rigs : sol[r] <= current
           /\ \A t \in pool : t.challenge <= current
           /\ \A t \in mined \ failed : t.challenge < current

\* What challenge.txt holds was submitted, or that came to nothing.
Chain == {t.challenge : t \in pool \cup mined}
Told == /\ ~folder => file = Nothing /\ \A r \in Rigs : pc[r] \notin {"check", "open", "write"}
        /\ folder => \A r \in Rigs : pc[r] = "sent" => sol[r] \in Chain \/ sol[r] \in vain
        /\ file # Nothing => Submitted(file) \/ file \in vain

Places == {"idle", "check", "open", "write", "nonce", "send", "sent"}
-----------------------------------------------------------------------------
LEMMA InitType == Init => TypeOK /\ HasNonce
  <1> SUFFICES ASSUME Init PROVE TypeOK /\ HasNonce
    OBVIOUS
  <1>1. MaxChallenge \in Nat /\ MaxFinds \in Nat /\ MaxFaults \in Nat
    BY ChallengeAssumption, BoundsAssumption
  <1>2. /\ pc \in [Rigs -> {"idle", "check", "open", "write", "nonce", "send", "sent"}]
        /\ \A r \in Rigs : pc[r] = "idle"
        /\ txNonce \in [Rigs -> Nat \cup {Unset}]
        /\ pending \in [Rigs -> SUBSET Tx]
        /\ lost \in [Accounts -> SUBSET Nat]
        /\ count \in [Accounts -> Nat]
        /\ fresh \in [Rigs -> BOOLEAN]
    BY DEF Init
  <1>3. /\ file \in 0 .. MaxChallenge /\ sol \in [Rigs -> 0 .. MaxChallenge]
        /\ current \in 1 .. MaxChallenge + 1
        /\ finds \in 0 .. MaxFinds /\ faults \in 0 .. MaxFaults
    BY <1>1 DEF Init, Nothing
  <1> QED
    BY <1>2, <1>3 DEF Init, TypeOK, HasNonce

\* The record of a transaction that is ready to be sent.
LEMMA NextTxType ==
    ASSUME TypeOK, HasNonce, NEW r \in Rigs, pc[r] \in {"send", "sent"}
    PROVE /\ NextTx(r) \in Tx
          /\ NextTx(r).rig = r /\ NextTx(r).account = account[r]
          /\ NextTx(r).nonce = txNonce[r] /\ NextTx(r).challenge = sol[r]
  <1>1. account[r] \in Accounts /\ txNonce[r] \in Nat
    BY DEF TypeOK, HasNonce
  <1>2. sol[r] \in 1 .. MaxChallenge
    BY ChallengeAssumption DEF TypeOK, Nothing
  <1> QED
    BY <1>1, <1>2 DEF NextTx, Tx

\* What Return does to the types.
LEMMA ReturnType ==
    ASSUME TypeOK, NEW r \in Rigs, Return(r)
    PROVE /\ pc' \in [Rigs -> Places]
          /\ sol' \in [Rigs -> 0 .. MaxChallenge]
          /\ fresh' \in [Rigs -> BOOLEAN]
          /\ pc'[r] = "idle"
          /\ \A q \in Rigs \ {r} : pc'[q] = pc[q] /\ sol'[q] = sol[q]
          /\ \A q \in Rigs : pc'[q] # "idle" => sol'[q] # Nothing
          /\ \A q \in Rigs : pc'[q] \in {"send", "sent"} => q # r
  <1>1. MaxChallenge \in Nat
    BY ChallengeAssumption
  <1> QED
    BY <1>1 DEF TypeOK, Return, Goto, Places, Nothing

\* What Goto does to the types.
LEMMA GotoType ==
    ASSUME TypeOK, NEW r \in Rigs, NEW place \in Places, Goto(r, place)
    PROVE /\ pc' \in [Rigs -> Places]
          /\ pc'[r] = place
          /\ \A q \in Rigs \ {r} : pc'[q] = pc[q]
  BY DEF TypeOK, Goto, Places

LEMMA FaultType ==
    ASSUME TypeOK, Fault
    PROVE faults' \in 0 .. MaxFaults
  BY BoundsAssumption DEF TypeOK, Fault

LEMMA WastedType ==
    ASSUME TypeOK, NEW r \in Rigs, pc[r] # "idle", Wasted(r)
    PROVE vain' \subseteq 1 .. MaxChallenge
  <1>1. sol[r] \in 1 .. MaxChallenge
    BY ChallengeAssumption DEF TypeOK, Nothing
  <1> QED
    BY <1>1 DEF TypeOK, Wasted, ComesToNothing

\* The part of the state that a rig's own steps change, typed.
RigOK == /\ pc \in [Rigs -> Places]
         /\ sol \in [Rigs -> 0 .. MaxChallenge]
         /\ \A r \in Rigs : pc[r] # "idle" => sol[r] # Nothing
         /\ txNonce \in [Rigs -> Nat \cup {Unset}]
         /\ fresh \in [Rigs -> BOOLEAN]
         /\ pending \in [Rigs -> SUBSET Tx]
NodeOK == /\ pool \subseteq Tx /\ mined \subseteq Tx /\ failed \subseteq mined
          /\ count \in [Accounts -> Nat]
          /\ current \in 1 .. MaxChallenge + 1
          /\ lost \in [Accounts -> SUBSET Nat]
RestOK == /\ folder \in BOOLEAN /\ account \in [Rigs -> Accounts]
          /\ file \in 0 .. MaxChallenge
          /\ finds \in 0 .. MaxFinds /\ faults \in 0 .. MaxFaults
          /\ vain \subseteq 1 .. MaxChallenge

LEMMA PoolType ==
    ASSUME TypeOK, NEW t \in pool
    PROVE /\ t.rig \in Rigs /\ t.account \in Accounts /\ t.nonce \in Nat
          /\ t.challenge \in 1 .. MaxChallenge
  BY DEF TypeOK, Tx

LEMMA MineType ==
    ASSUME TypeOK, HasNonce, NEW t \in pool, Mine(t)
    PROVE TypeOK' /\ HasNonce'
  <1>1. RigOK' /\ HasNonce'
    BY DEF Mine, rig, TypeOK, RigOK, HasNonce, Places
  <1>2. current' \in 1 .. MaxChallenge + 1
    BY PoolType, ChallengeAssumption DEF Mine, TypeOK
  <1>3. count' \in [Accounts -> Nat] /\ lost' \in [Accounts -> SUBSET Nat]
    BY PoolType DEF Mine, TypeOK
  <1>4. pool' \subseteq Tx /\ mined' \subseteq Tx /\ failed' \subseteq mined'
    BY DEF Mine, TypeOK
  <1>5. RestOK'
    BY PoolType, FaultType DEF Mine, ComesToNothing, TypeOK, RestOK, config, bounds
  <1> QED
    BY <1>1, <1>2, <1>3, <1>4, <1>5 DEF NodeOK, TypeOK, RigOK, RestOK, Places

LEMMA EvictType ==
    ASSUME TypeOK, HasNonce, NEW t \in pool, Evict(t)
    PROVE TypeOK' /\ HasNonce'
  <1>1. RigOK' /\ HasNonce'
    BY DEF Evict, rig, TypeOK, RigOK, HasNonce, Places
  <1>2. faults' \in 0 .. MaxFaults
    BY FaultType DEF Evict
  <1>3. lost' \in [Accounts -> SUBSET Nat]
    BY PoolType DEF Evict, TypeOK
  <1>4. NodeOK'
    BY <1>3 DEF Evict, TypeOK, NodeOK
  <1>5. vain' \subseteq 1 .. MaxChallenge
    BY PoolType DEF Evict, ComesToNothing, TypeOK
  <1>6. RestOK'
    BY <1>2, <1>5 DEF Evict, TypeOK, RestOK, config
  <1> QED
    BY <1>1, <1>4, <1>6 DEF NodeOK, TypeOK, RigOK, RestOK, Places

LEMMA AdvanceType ==
    ASSUME TypeOK, HasNonce, Advance
    PROVE TypeOK' /\ HasNonce'
  <1>1. RigOK' /\ HasNonce'
    BY DEF Advance, rig, TypeOK, RigOK, HasNonce, Places
  <1>2. NodeOK'
    BY ChallengeAssumption DEF Advance, TypeOK, NodeOK
  <1>3. RestOK'
    BY DEF Advance, TypeOK, RestOK, config, bounds
  <1> QED
    BY <1>1, <1>2, <1>3 DEF NodeOK, TypeOK, RigOK, RestOK, Places

\* The five steps that only change where a rig is, and the file.
LEMMA FileStepsType ==
    ASSUME TypeOK, HasNonce, NEW r \in Rigs,
           Skip(r) \/ Claim(r) \/ FileError(r) \/ OpenFile(r) \/ WriteFile(r)
    PROVE TypeOK' /\ HasNonce'
  <1>1. ASSUME Skip(r) PROVE TypeOK' /\ HasNonce'
    <2>1. RigOK' /\ HasNonce'
      BY <1>1, ReturnType DEF Skip, TypeOK, RigOK, HasNonce
    <2>2. NodeOK' /\ RestOK'
      BY <1>1 DEF Skip, TypeOK, NodeOK, RestOK, node, config, bounds
    <2> QED
      BY <2>1, <2>2 DEF NodeOK, TypeOK, RigOK, RestOK, Places
  <1>2. ASSUME Claim(r) PROVE TypeOK' /\ HasNonce'
    <2>1. Goto(r, "open") /\ pc[r] = "check"
      BY <1>2 DEF Claim
    <2>2. RigOK' /\ HasNonce'
      BY <1>2, <2>1, GotoType DEF Claim, TypeOK, RigOK, HasNonce, Places
    <2>3. NodeOK' /\ RestOK'
      BY <1>2 DEF Claim, TypeOK, NodeOK, RestOK, node, config, bounds
    <2> QED
      BY <2>2, <2>3 DEF NodeOK, TypeOK, RigOK, RestOK, Places
  <1>3. ASSUME FileError(r) PROVE TypeOK' /\ HasNonce'
    <2>1. Goto(r, "nonce") /\ pc[r] \in {"check", "open"}
      BY <1>3 DEF FileError
    <2>2. RigOK' /\ HasNonce'
      BY <1>3, <2>1, GotoType DEF FileError, TypeOK, RigOK, HasNonce, Places
    <2>3. NodeOK' /\ RestOK'
      BY <1>3, FaultType DEF FileError, TypeOK, NodeOK, RestOK, node, config
    <2> QED
      BY <2>2, <2>3 DEF NodeOK, TypeOK, RigOK, RestOK, Places
  <1>4. ASSUME OpenFile(r) PROVE TypeOK' /\ HasNonce'
    <2>1. Goto(r, "write") /\ pc[r] = "open"
      BY <1>4 DEF OpenFile
    <2>2. RigOK' /\ HasNonce'
      BY <1>4, <2>1, GotoType DEF OpenFile, TypeOK, RigOK, HasNonce, Places
    <2>3. NodeOK' /\ RestOK'
      BY <1>4, ChallengeAssumption
      DEF OpenFile, TypeOK, NodeOK, RestOK, node, config, bounds, Nothing
    <2> QED
      BY <2>2, <2>3 DEF NodeOK, TypeOK, RigOK, RestOK, Places
  <1>5. ASSUME WriteFile(r) PROVE TypeOK' /\ HasNonce'
    <2>1. Goto(r, "nonce") /\ pc[r] = "write"
      BY <1>5 DEF WriteFile
    <2>2. RigOK' /\ HasNonce'
      BY <1>5, <2>1, GotoType DEF WriteFile, TypeOK, RigOK, HasNonce, Places
    <2>3. NodeOK' /\ RestOK'
      BY <1>5 DEF WriteFile, TypeOK, NodeOK, RestOK, node, config, bounds
    <2> QED
      BY <2>2, <2>3 DEF NodeOK, TypeOK, RigOK, RestOK, Places
  <1> QED
    BY <1>1, <1>2, <1>3, <1>4, <1>5

LEMMA FindType ==
    ASSUME TypeOK, HasNonce, NEW r \in Rigs, NEW c \in 1 .. MaxChallenge, Find(r, c)
    PROVE TypeOK' /\ HasNonce'
  <1>1. PICK place \in {"check", "nonce"} : Goto(r, place)
    BY DEF Find
  <1>2. /\ pc' \in [Rigs -> Places] /\ pc'[r] = place
        /\ \A q \in Rigs \ {r} : pc'[q] = pc[q]
    BY <1>1, GotoType DEF Places
  <1>3. /\ sol' \in [Rigs -> 0 .. MaxChallenge]
        /\ \A q \in Rigs : pc'[q] # "idle" => sol'[q] # Nothing
    BY <1>2, ChallengeAssumption DEF Find, TypeOK, Nothing
  <1>4. RigOK' /\ HasNonce'
    BY <1>2, <1>3 DEF Find, TypeOK, RigOK, HasNonce
  <1>5. NodeOK' /\ RestOK'
    BY BoundsAssumption DEF Find, TypeOK, NodeOK, RestOK, node, config
  <1> QED
    BY <1>4, <1>5 DEF NodeOK, TypeOK, RigOK, RestOK, Places

\* The nonce that is taken is the node's count or the one after the last.
LEMMA TakeNonceEffect ==
    ASSUME TypeOK, NEW r \in Rigs, TakeNonce(r)
    PROVE /\ txNonce' \in [Rigs -> Nat \cup {Unset}]
          /\ txNonce'[r] \in Nat
          /\ \A q \in Rigs \ {r} : txNonce'[q] = txNonce[q]
          /\ \/ txNonce'[r] = count[account[r]]
             \/ txNonce[r] \in Nat /\ txNonce'[r] = txNonce[r] + 1
          /\ fresh' \in [Rigs -> BOOLEAN]
  <1>1. /\ count[account[r]] \in Nat /\ txNonce[r] \in Nat \cup {Unset}
        /\ txNonce \in [Rigs -> Nat \cup {Unset}] /\ fresh \in [Rigs -> BOOLEAN]
    BY DEF TypeOK
  <1>2. fresh' \in [Rigs -> BOOLEAN] /\ (txNonce[r] = Unset => fresh'[r])
    BY <1>1 DEF TakeNonce
  <1>3. txNonce' = [txNonce EXCEPT ![r] = IF fresh'[r] THEN count[account[r]] ELSE txNonce[r] + 1]
    BY DEF TakeNonce
  <1>4. CASE fresh'[r]
    BY <1>1, <1>2, <1>3, <1>4
  <1>5. CASE ~fresh'[r]
    <2>1. txNonce[r] \in Nat
      BY <1>1, <1>2, <1>5
    <2> QED
      BY <1>1, <1>2, <1>3, <1>5, <2>1
  <1> QED
    BY <1>4, <1>5

LEMMA TakeNonceType ==
    ASSUME TypeOK, HasNonce, NEW r \in Rigs, TakeNonce(r)
    PROVE TypeOK' /\ HasNonce'
  <1>1. Goto(r, "send") /\ pc[r] = "nonce"
    BY DEF TakeNonce
  <1>2. txNonce'[r] # Unset
    BY TakeNonceEffect DEF Unset
  <1>3. HasNonce'
    BY <1>1, <1>2, GotoType, TakeNonceEffect DEF HasNonce, Places
  <1>4. RigOK'
    <2>1. pc' \in [Rigs -> Places]
      BY <1>1, GotoType DEF Places
    <2>2. \A q \in Rigs : pc'[q] # "idle" => sol[q] # Nothing
      BY <1>1, GotoType DEF TypeOK, Places
    <2>3. UNCHANGED <<sol, pending>> /\ sol \in [Rigs -> 0 .. MaxChallenge]
          /\ pending \in [Rigs -> SUBSET Tx]
      BY DEF TakeNonce, TypeOK
    <2>4. txNonce' \in [Rigs -> Nat \cup {Unset}] /\ fresh' \in [Rigs -> BOOLEAN]
      BY TakeNonceEffect
    <2> QED
      BY <2>1, <2>2, <2>3, <2>4 DEF RigOK
  <1>5. NodeOK' /\ RestOK'
    BY DEF TakeNonce, TypeOK, NodeOK, RestOK, node, config, bounds
  <1> QED
    BY <1>3, <1>4, <1>5 DEF NodeOK, TypeOK, RigOK, RestOK, Places

\* The three ways in which the solution is lost before the node has it.
LEMMA FailuresType ==
    ASSUME TypeOK, HasNonce, NEW r \in Rigs, NonceError(r) \/ Refused(r) \/ SendError(r)
    PROVE TypeOK' /\ HasNonce'
  <1>1. /\ Return(r) /\ Wasted(r) /\ pc[r] # "idle"
        /\ UNCHANGED <<finds, config, file, txNonce, pending, node>>
    <2>1. CASE NonceError(r)
      BY <2>1 DEF NonceError
    <2>2. CASE Refused(r)
      BY <2>2 DEF Refused, bounds
    <2>3. CASE SendError(r)
      BY <2>3 DEF SendError
    <2> QED
      BY <2>1, <2>2, <2>3
  <1>2. RigOK' /\ HasNonce'
    BY <1>1, ReturnType DEF TypeOK, RigOK, HasNonce
  <1>3. lost' \in [Accounts -> SUBSET Nat]
    <2>1. CASE SendError(r)
      <3>1. txNonce[r] \in Nat
        BY <2>1 DEF SendError, HasNonce, TypeOK
      <3> QED
        BY <2>1, <3>1 DEF SendError, TypeOK
    <2>2. CASE NonceError(r) \/ Refused(r)
      BY <2>2 DEF NonceError, Refused, TypeOK
    <2> QED
      BY <2>1, <2>2
  <1>4. NodeOK'
    BY <1>1, <1>3 DEF TypeOK, NodeOK, node
  <1>5. faults' \in 0 .. MaxFaults
    BY FaultType DEF NonceError, Refused, SendError, bounds, TypeOK
  <1>6. RestOK'
    BY <1>1, <1>5, WastedType DEF TypeOK, RestOK, config
  <1> QED
    BY <1>2, <1>4, <1>6 DEF NodeOK, TypeOK, RigOK, RestOK, Places

LEMMA SendType ==
    ASSUME TypeOK, HasNonce, NEW r \in Rigs, Send(r)
    PROVE TypeOK' /\ HasNonce'
  <1>0. pc[r] = "send"
    BY DEF Send
  <1>1. RigOK' /\ HasNonce' /\ faults' \in 0 .. MaxFaults
    <2>0. UNCHANGED <<txNonce, pending>>
      BY DEF Send
    <2>1. CASE Goto(r, "sent") /\ UNCHANGED <<sol, fresh, faults>>
      BY <1>0, <2>0, <2>1, GotoType DEF TypeOK, RigOK, HasNonce, Places
    <2>2. CASE Return(r) /\ Fault
      BY <1>0, <2>0, <2>2, ReturnType, FaultType DEF TypeOK, RigOK, HasNonce
    <2> QED
      BY <2>1, <2>2 DEF Send
  <1>2. pool' \subseteq Tx
    BY <1>0, NextTxType DEF Send, TypeOK
  <1>3. NodeOK'
    BY <1>2 DEF Send, TypeOK, NodeOK
  <1>4. vain' \subseteq 1 .. MaxChallenge
    BY PoolType DEF Send, TypeOK
  <1>5. RestOK'
    BY <1>1, <1>4 DEF Send, TypeOK, RestOK, config
  <1> QED
    BY <1>1, <1>3, <1>5 DEF NodeOK, TypeOK, RigOK, RestOK, Places

LEMMA RecordType ==
    ASSUME TypeOK, HasNonce, NEW r \in Rigs, Record(r)
    PROVE TypeOK' /\ HasNonce'
  <1>1. pending' \in [Rigs -> SUBSET Tx]
    BY NextTxType DEF Record, TypeOK
  <1>2. RigOK' /\ HasNonce'
    BY <1>1, ReturnType DEF Record, TypeOK, RigOK, HasNonce
  <1>3. NodeOK' /\ RestOK'
    BY DEF Record, TypeOK, NodeOK, RestOK, node, config, bounds
  <1> QED
    BY <1>2, <1>3 DEF NodeOK, TypeOK, RigOK, RestOK, Places

LEMMA CheckPendingType ==
    ASSUME TypeOK, HasNonce, NEW r \in Rigs, CheckPending(r)
    PROVE TypeOK' /\ HasNonce'
  <1>1. pending' \in [Rigs -> SUBSET Tx]
    BY DEF CheckPending, TypeOK
  <1>2. RigOK' /\ HasNonce'
    BY <1>1 DEF CheckPending, TypeOK, RigOK, HasNonce, Places
  <1>3. NodeOK' /\ RestOK'
    BY DEF CheckPending, TypeOK, NodeOK, RestOK, node, config, bounds
  <1> QED
    BY <1>2, <1>3 DEF NodeOK, TypeOK, RigOK, RestOK, Places

LEMMA RestartType ==
    ASSUME TypeOK, HasNonce, NEW r \in Rigs, Restart(r)
    PROVE TypeOK' /\ HasNonce'
  <1>1. /\ txNonce' \in [Rigs -> Nat \cup {Unset}]
        /\ \A q \in Rigs \ {r} : txNonce'[q] = txNonce[q]
        /\ pending' \in [Rigs -> SUBSET Tx]
    BY DEF Restart, TypeOK
  <1>2. RigOK' /\ HasNonce'
    BY <1>1, ReturnType DEF Restart, RigOK, HasNonce
  <1>3. vain' \subseteq 1 .. MaxChallenge
    BY WastedType DEF Restart, TypeOK
  <1>4. NodeOK' /\ RestOK'
    BY <1>3, FaultType DEF Restart, TypeOK, NodeOK, RestOK, node, config
  <1> QED
    BY <1>2, <1>4 DEF NodeOK, TypeOK, RigOK, RestOK, Places
-----------------------------------------------------------------------------
\* The nonces of an account, of which none is missing.
LEMMA NodeNoGaps ==
    ASSUME TypeOK, NoGaps, NEW t \in pool, Mine(t) \/ Evict(t)
    PROVE NoGaps'
  <1> SUFFICES ASSUME NEW r \in Rigs, NEW n \in (count[account[r]] .. txNonce[r])'
               PROVE \/ n \in Nonces(account[r])' \cup lost'[account[r]]
                     \/ pc[r] = "send" /\ n = txNonce[r]
    BY DEF NoGaps, Mine, Evict, config, rig
  <1>1. /\ t.account \in Accounts /\ t.nonce \in Nat /\ account[r] \in Accounts
        /\ count[account[r]] \in Nat /\ txNonce[r] \in Int
        /\ lost \in [Accounts -> SUBSET Nat] /\ count \in [Accounts -> Nat]
    BY PoolType DEF TypeOK, Unset
  <1>2. UNCHANGED <<account, pc, txNonce>> /\ pool' = pool \ {t}
    BY DEF Mine, Evict, config, rig
  <1>3. CASE Mine(t)
    <2>1. /\ t.nonce = count[t.account]
          /\ count' = [count EXCEPT ![t.account] = count[t.account] + 1]
          /\ lost' = [lost EXCEPT ![t.account] = lost[t.account] \ {t.nonce}]
      BY <1>3 DEF Mine
    <2>2. n \in count[account[r]] .. txNonce[r]
      BY <1>1, <1>2, <2>1
    <2>3. ~(t.account = account[r] /\ t.nonce = n)
      BY <1>1, <1>2, <2>1
    <2>4. \/ n \in Nonces(account[r]) \cup lost[account[r]]
          \/ pc[r] = "send" /\ n = txNonce[r]
      BY <2>2 DEF NoGaps
    <2>5. n \in Nonces(account[r]) => n \in Nonces(account[r])'
      BY <1>2, <2>3 DEF Nonces
    <2>6. n \in lost[account[r]] => n \in lost'[account[r]]
      BY <1>1, <2>1, <2>3
    <2> QED
      BY <2>4, <2>5, <2>6
  <1>4. CASE Evict(t)
    <2>1. /\ lost' = [lost EXCEPT ![t.account] = lost[t.account] \cup {t.nonce}]
          /\ count' = count
      BY <1>4 DEF Evict
    <2>2. \/ n \in Nonces(account[r]) \cup lost[account[r]]
          \/ pc[r] = "send" /\ n = txNonce[r]
      BY <1>2, <2>1 DEF NoGaps
    <2>3. n \in Nonces(account[r]) => n \in Nonces(account[r])' \/ n \in lost'[account[r]]
      BY <1>1, <1>2, <2>1 DEF Nonces
    <2>4. n \in lost[account[r]] => n \in lost'[account[r]]
      BY <1>1, <2>1
    <2> QED
      BY <2>2, <2>3, <2>4
  <1> QED
    BY <1>3, <1>4

\* Steps that leave the nonces alone, and move no rig away from sending.
LEMMA AsideNoGaps ==
    ASSUME TypeOK, NoGaps, UNCHANGED <<account, count, txNonce, pool, lost>>,
           \A r \in Rigs : pc[r] = "send" => pc'[r] = "send"
    PROVE NoGaps'
  BY DEF NoGaps, Nonces

\* A nonce is taken: it is the next one, and it is about to be sent.
LEMMA TakeNonceNoGaps ==
    ASSUME TypeOK, NoGaps, NEW r \in Rigs, TakeNonce(r)
    PROVE NoGaps'
  <1>0. /\ pc[r] = "nonce" /\ pc'[r] = "send"
        /\ \A q \in Rigs \ {r} : pc'[q] = pc[q]
        /\ UNCHANGED <<account, count, pool, lost>>
    BY DEF TakeNonce, Goto, TypeOK, config, node
  <1> SUFFICES ASSUME NEW q \in Rigs, NEW n \in count[account[q]] .. txNonce'[q]
               PROVE \/ n \in Nonces(account[q]) \cup lost[account[q]]
                     \/ pc'[q] = "send" /\ n = txNonce'[q]
    BY <1>0 DEF NoGaps, Nonces
  <1>1. CASE q # r
    BY <1>0, <1>1, TakeNonceEffect DEF NoGaps
  <1>2. CASE q = r
    <2>1. CASE n = txNonce'[r]
      BY <1>0, <1>2, <2>1
    <2>2. CASE n # txNonce'[r]
      <3>1. count[account[r]] \in Nat
        BY DEF TypeOK
      <3>2. n \in count[account[r]] .. txNonce[r]
        BY <1>2, <2>2, <3>1, TakeNonceEffect
      <3> QED
        BY <1>0, <1>2, <3>2 DEF NoGaps
    <2> QED
      BY <2>1, <2>2
  <1> QED
    BY <1>1, <1>2

\* The node has the transaction, in the place of any other of this nonce.
LEMMA SendNoGaps ==
    ASSUME TypeOK, HasNonce, NoGaps, NEW r \in Rigs, Send(r)
    PROVE NoGaps'
  <1> DEFINE replaced == {t \in pool : SameSlot(t, NextTx(r))}
  <1>0. /\ pc[r] = "send"
        /\ \A q \in Rigs \ {r} : pc'[q] = pc[q]
        /\ UNCHANGED <<account, count, txNonce>>
        /\ pool' = (pool \ replaced) \cup {NextTx(r)}
        /\ lost' = [lost EXCEPT ![account[r]] = lost[account[r]] \ {txNonce[r]}]
    BY DEF Send, Goto, Return, TypeOK, config
  <1>1. NextTx(r).account = account[r] /\ NextTx(r).nonce = txNonce[r]
    BY <1>0, NextTxType
  <1>2. account \in [Rigs -> Accounts] /\ lost \in [Accounts -> SUBSET Nat]
    BY DEF TypeOK
  <1>3. ASSUME NEW a \in Accounts, NEW n, n \in Nonces(a) \cup lost[a]
        PROVE n \in Nonces(a)' \cup lost'[a]
    <2>1. CASE a = account[r] /\ n = txNonce[r]
      BY <1>0, <1>1, <2>1 DEF Nonces
    <2>2. CASE ~(a = account[r] /\ n = txNonce[r])
      <3>1. n \in lost[a] => n \in lost'[a]
        BY <1>0, <1>2, <2>2
      <3>2. ASSUME NEW t \in pool, t.account = a, t.nonce = n PROVE t \in pool'
        BY <1>0, <1>1, <2>2, <3>2 DEF SameSlot
      <3> QED
        BY <1>3, <3>1, <3>2 DEF Nonces
    <2> QED
      BY <2>1, <2>2
  <1>4. txNonce[r] \in Nonces(account[r])'
    BY <1>0, <1>1 DEF Nonces
  <1> SUFFICES ASSUME NEW q \in Rigs, NEW n \in count[account[q]] .. txNonce[q]
               PROVE \/ n \in Nonces(account[q])' \cup lost'[account[q]]
                     \/ pc'[q] = "send" /\ n = txNonce[q]
    BY <1>0 DEF NoGaps, Nonces
  <1>5. \/ n \in Nonces(account[q]) \cup lost[account[q]]
        \/ pc[q] = "send" /\ n = txNonce[q]
    BY DEF NoGaps
  <1>6. CASE n \in Nonces(account[q]) \cup lost[account[q]]
    <2>1. account[q] \in Accounts /\ account' = account
      BY <1>0, <1>2
    <2> QED
      BY <1>3, <1>6, <2>1 DEF Nonces
  <1>7. CASE pc[q] = "send" /\ n = txNonce[q]
    BY <1>0, <1>4, <1>7
  <1> QED
    BY <1>5, <1>6, <1>7

\* A transaction that does not leave the rig leaves a nonce that is lost; one
\* that the node refuses has a nonce that is used or waiting.
LEMMA FailuresNoGaps ==
    ASSUME TypeOK, HasNonce, NoGaps, NEW r \in Rigs, Refused(r) \/ SendError(r)
    PROVE NoGaps'
  <1>0. /\ pc[r] = "send"
        /\ \A q \in Rigs \ {r} : pc'[q] = pc[q]
        /\ UNCHANGED <<account, count, txNonce, pool>>
    BY DEF Refused, SendError, Return, Goto, TypeOK, config, node
  <1>1. account \in [Rigs -> Accounts] /\ lost \in [Accounts -> SUBSET Nat]
        /\ txNonce[r] \in Nat /\ count[account[r]] \in Nat
    BY <1>0 DEF TypeOK, HasNonce
  <1>2. \A a \in Accounts : lost[a] \subseteq lost'[a]
    BY <1>1 DEF Refused, SendError
  <1>3. \/ txNonce[r] < count[account[r]]
        \/ txNonce[r] \in Nonces(account[r]) \cup lost'[account[r]]
    <2>1. CASE SendError(r)
      BY <1>1, <2>1 DEF SendError
    <2>2. CASE Refused(r)
      <3>1. NextTx(r).account = account[r] /\ NextTx(r).nonce = txNonce[r]
        BY <1>0, NextTxType
      <3> QED
        BY <2>2, <3>1 DEF Refused, SameSlot, Nonces
    <2> QED
      BY <2>1, <2>2
  <1> SUFFICES ASSUME NEW q \in Rigs, NEW n \in count[account[q]] .. txNonce[q]
               PROVE \/ n \in Nonces(account[q]) \cup lost'[account[q]]
                     \/ pc'[q] = "send" /\ n = txNonce[q]
    BY <1>0 DEF NoGaps, Nonces
  <1>4. \/ n \in Nonces(account[q]) \cup lost[account[q]]
        \/ pc[q] = "send" /\ n = txNonce[q]
    BY DEF NoGaps
  <1>5. CASE q = r /\ n = txNonce[r]
    BY <1>1, <1>3, <1>5
  <1>6. CASE ~(q = r /\ n = txNonce[r])
    BY <1>0, <1>1, <1>2, <1>4, <1>6
  <1> QED
    BY <1>5, <1>6

\* A new client has no nonce.
LEMMA RestartNoGaps ==
    ASSUME TypeOK, NoGaps, NEW r \in Rigs, Restart(r)
    PROVE NoGaps'
  <1>0. /\ \A q \in Rigs \ {r} : pc'[q] = pc[q] /\ txNonce'[q] = txNonce[q]
        /\ txNonce'[r] = -1
        /\ UNCHANGED <<account, count, pool, lost>>
    BY DEF Restart, Return, Goto, TypeOK, config, node, Unset
  <1>1. count[account[r]] \in Nat
    BY DEF TypeOK
  <1> SUFFICES ASSUME NEW q \in Rigs, NEW n \in count[account[q]] .. txNonce'[q]
               PROVE \/ n \in Nonces(account[q]) \cup lost[account[q]]
                     \/ pc'[q] = "send" /\ n = txNonce'[q]
    BY <1>0 DEF NoGaps, Nonces
  <1>2. q # r
    BY <1>0, <1>1
  <1> QED
    BY <1>0, <1>2 DEF NoGaps
-----------------------------------------------------------------------------
\* The node's steps keep the order of the challenges, and what is told.
LEMMA NodeOrdered ==
    ASSUME TypeOK, Ordered,
           \/ \E t \in pool : Mine(t) \/ Evict(t)
           \/ Advance
    PROVE Ordered'
  <1>0. /\ current \in Int /\ sol \in [Rigs -> Int]
        /\ \A t \in pool \cup mined : t.challenge \in Int
    BY ChallengeAssumption DEF TypeOK, Tx
  <1>1. ASSUME NEW t \in pool, Mine(t) PROVE Ordered'
    <2>1. /\ sol' = sol /\ pool' = pool \ {t} /\ mined' = mined \cup {t}
          /\ \/ /\ current' = IF t.challenge = current THEN current + 1 ELSE current
                /\ failed' = failed
             \/ current' = current /\ failed' = failed \cup {t}
      BY <1>1 DEF Mine, rig
    <2>2. /\ current' >= current /\ current' \in Int
          /\ t.challenge < current' \/ t \in failed'
      BY <1>0, <2>1 DEF Ordered
    <2>3. failed \subseteq failed'
      BY <2>1
    <2> QED
      BY <1>0, <2>1, <2>2, <2>3 DEF Ordered
  <1>2. ASSUME NEW t \in pool, Evict(t) PROVE Ordered'
    BY <1>2 DEF Evict, Ordered, rig
  <1>3. ASSUME Advance PROVE Ordered'
    BY <1>0, <1>3 DEF Advance, Ordered, rig
  <1> QED
    BY <1>1, <1>2, <1>3

\* A rig submits no challenge that the contract has not set.
LEMMA RigOrdered ==
    ASSUME TypeOK, HasNonce, Ordered, NEW r \in Rigs, RigStep(r)
    PROVE Ordered'
  <1>0. /\ current \in Int /\ current >= 0 /\ sol \in [Rigs -> 0 .. MaxChallenge]
        /\ \A t \in pool \cup mined : t.challenge \in Int
    BY ChallengeAssumption DEF TypeOK, Tx
  <1>1. UNCHANGED <<mined, failed, current>>
    BY DEF RigStep, SubmitWorkSolo, Find, Skip, Claim, FileError, OpenFile, WriteFile,
           TakeNonce, NonceError, Send, Refused, SendError, Record, CheckPending,
           Restart, node
  <1>2. \A q \in Rigs : sol'[q] <= current
    <2>1. CASE \E c \in {current, current - 1} \cap (1 .. MaxChallenge) : Find(r, c)
      BY <1>0, <2>1 DEF Find, Ordered
    <2>2. CASE sol' = sol
      BY <2>2 DEF Ordered
    <2>3. CASE Return(r)
      BY <1>0, <2>3 DEF Return, Ordered, Nothing
    <2>4. CASE SubmitWorkSolo(r)
      BY <2>2, <2>3, <2>4
      DEF SubmitWorkSolo, Skip, Claim, FileError, OpenFile, WriteFile,
          TakeNonce, NonceError, Send, Refused, SendError, Record
    <2>5. CASE CheckPending(r) \/ Restart(r)
      BY <2>2, <2>3, <2>5 DEF CheckPending, Restart
    <2> QED
      BY <2>1, <2>4, <2>5 DEF RigStep
  <1>3. \A t \in pool' : t.challenge <= current
    <2>1. CASE Send(r)
      BY <2>1, NextTxType DEF Send, Ordered
    <2>2. CASE ~Send(r)
      <3>1. pool' = pool
        BY <2>2
        DEF RigStep, SubmitWorkSolo, Find, Skip, Claim, FileError, OpenFile, WriteFile,
            TakeNonce, NonceError, Refused, SendError, Record, CheckPending, Restart, node
      <3> QED
        BY <3>1 DEF Ordered
    <2> QED
      BY <2>1, <2>2
  <1> QED
    BY <1>1, <1>2, <1>3 DEF Ordered

-----------------------------------------------------------------------------
\* A challenge that was submitted stays so while the rigs only move on.
LEMMA StaysSubmitted ==
    ASSUME mined \subseteq mined', pool \subseteq pool',
           \A r \in Rigs : pc[r] \in {"nonce", "send", "sent"}
                              => pc'[r] \in {"nonce", "send", "sent"} /\ sol'[r] = sol[r]
    PROVE \A c : (Submitted(c) => Submitted(c)') /\ (c \in Chain => c \in Chain')
  BY DEF Submitted, Chain

LEMMA NodeTold ==
    ASSUME TypeOK, Told,
           \/ \E t \in pool : Mine(t) \/ Evict(t)
           \/ Advance
    PROVE Told'
  <1>0. UNCHANGED <<folder, file, pc, sol>>
    BY DEF Mine, Evict, Advance, config, rig
  <1>1. ASSUME NEW t \in pool, Mine(t) PROVE Told'
    <2>1. /\ pool' = pool \ {t} /\ mined' = mined \cup {t}
          /\ vain \ {t.challenge} \subseteq vain'
      BY <1>1 DEF Mine, ComesToNothing
    <2>2. \A c : c \in Chain \/ c \in vain => c \in Chain' \/ c \in vain'
      BY <2>1 DEF Chain
    <2>3. \A c : Submitted(c) \/ c \in vain => Submitted(c)' \/ c \in vain'
      BY <1>0, <2>1 DEF Submitted
    <2> QED
      BY <1>0, <2>2, <2>3 DEF Told
  <1>2. ASSUME NEW t \in pool, Evict(t) PROVE Told'
    <2>1. /\ pool' = pool \ {t} /\ mined' = mined
          /\ vain' = IF folder THEN vain \cup {t.challenge} ELSE vain
      BY <1>2 DEF Evict, ComesToNothing
    <2>2. CASE ~folder
      BY <1>0, <2>2 DEF Told
    <2>3. CASE folder
      <3>1. \A c : c \in Chain \/ c \in vain => c \in Chain' \/ c \in vain'
        BY <2>1, <2>3 DEF Chain
      <3>2. \A c : Submitted(c) \/ c \in vain => Submitted(c)' \/ c \in vain'
        BY <1>0, <2>1, <2>3 DEF Submitted
      <3> QED
        BY <1>0, <2>3, <3>1, <3>2 DEF Told
    <2> QED
      BY <2>2, <2>3
  <1>3. ASSUME Advance PROVE Told'
    <2>1. UNCHANGED <<pool, mined, vain>>
      BY <1>3 DEF Advance
    <2> QED
      BY <1>0, <2>1 DEF Told, Submitted, Chain
  <1> QED
    BY <1>1, <1>2, <1>3

\* A rig leaves submitWorkSolo: its solution was sent, or that came to nothing.
LEMMA LeaveTold ==
    ASSUME TypeOK, Told, NEW r \in Rigs, Return(r),
           UNCHANGED <<folder, file, pool, mined>>, vain \subseteq vain',
           folder /\ pc[r] \in {"nonce", "send"} => sol[r] \in vain'
    PROVE Told'
  <1>0. /\ pc'[r] = "idle"
        /\ \A q \in Rigs \ {r} : pc'[q] = pc[q] /\ sol'[q] = sol[q]
    BY DEF Return, Goto, TypeOK
  <1>1. CASE ~folder
    BY <1>0, <1>1 DEF Told
  <1>2. CASE folder
    <2>1. \A c : c \in Chain => c \in Chain'
      BY DEF Chain
    <2>2. pc[r] \in {"nonce", "send", "sent"} => sol[r] \in Chain' \/ sol[r] \in vain'
      BY <1>2, <2>1 DEF Told
    <2>3. \A c : Submitted(c) => Submitted(c)' \/ c \in vain'
      <3> SUFFICES ASSUME NEW c, Submitted(c) PROVE Submitted(c)' \/ c \in vain'
        OBVIOUS
      <3>1. CASE pc[r] \in {"nonce", "send", "sent"} /\ sol[r] = c
        BY <2>2, <3>1 DEF Chain, Submitted
      <3>2. CASE ~(pc[r] \in {"nonce", "send", "sent"} /\ sol[r] = c)
        BY <1>0, <3>2 DEF Submitted
      <3> QED
        BY <3>1, <3>2
    <2> QED
      BY <1>0, <1>2, <2>1, <2>3 DEF Told
  <1> QED
    BY <1>1, <1>2

\* A rig moves on: what it submits remains what it submits.
LEMMA MoveTold ==
    ASSUME TypeOK, Told, NEW r \in Rigs,
           UNCHANGED <<folder, pool, mined, vain>>, file' \in {file, Nothing},
           \A q \in Rigs \ {r} : pc'[q] = pc[q] /\ sol'[q] = sol[q],
           pc[r] # "sent", pc'[r] # "sent",
           folder \/ pc'[r] \in {"nonce", "send", "idle"},
           pc[r] \in {"nonce", "send"} => pc'[r] \in {"nonce", "send"} /\ sol'[r] = sol[r]
    PROVE Told'
  <1>1. \A c : (Submitted(c) => Submitted(c)') /\ (c \in Chain => c \in Chain')
    BY StaysSubmitted
  <1>2. CASE ~folder
    BY <1>2 DEF Told
  <1>3. CASE folder
    BY <1>1, <1>3 DEF Told
  <1> QED
    BY <1>2, <1>3

LEMMA SendTold ==
    ASSUME TypeOK, HasNonce, Told, NEW r \in Rigs, Send(r)
    PROVE Told'
  <1> DEFINE replaced == {t \in pool : SameSlot(t, NextTx(r))}
  <1>0. /\ pc[r] = "send" /\ UNCHANGED <<folder, file, mined>>
        /\ pool' = (pool \ replaced) \cup {NextTx(r)}
        /\ vain' = IF folder THEN vain \cup {t.challenge : t \in replaced} ELSE vain
        /\ \A q \in Rigs \ {r} : pc'[q] = pc[q] /\ sol'[q] = sol[q]
        /\ pc'[r] \in {"idle", "sent"}
        /\ pc'[r] = "sent" => sol'[r] = sol[r]
    BY DEF Send, Goto, Return, TypeOK, config
  <1>1. NextTx(r).challenge = sol[r]
    BY <1>0, NextTxType
  <1>2. sol[r] \in Chain'
    BY <1>0, <1>1 DEF Chain
  <1>3. CASE ~folder
    BY <1>0, <1>3 DEF Told
  <1>4. CASE folder
    <2>1. \A c : c \in Chain => c \in Chain' \/ c \in vain'
      BY <1>0, <1>4 DEF Chain
    <2>2. vain \subseteq vain'
      BY <1>0, <1>4
    <2> HIDE DEF replaced
    <2>3. \A c : Submitted(c) => Submitted(c)' \/ c \in vain'
      <3> SUFFICES ASSUME NEW c, Submitted(c) PROVE Submitted(c)' \/ c \in vain'
        OBVIOUS
      <3>1. CASE c \in Chain \/ c = sol[r]
        BY <1>2, <2>1, <3>1 DEF Chain, Submitted
      <3>2. CASE c \notin Chain /\ c # sol[r]
        BY <1>0, <3>2 DEF Submitted, Chain
      <3> QED
        BY <3>1, <3>2
    <2>4. \A q \in Rigs : pc'[q] = "sent" => sol'[q] \in Chain' \/ sol'[q] \in vain'
      <3> SUFFICES ASSUME NEW q \in Rigs, pc'[q] = "sent"
                   PROVE sol'[q] \in Chain' \/ sol'[q] \in vain'
        OBVIOUS
      <3>1. CASE q = r
        BY <1>0, <1>2, <3>1 DEF Chain
      <3>2. CASE q # r
        BY <1>0, <1>4, <2>1, <2>2, <3>2 DEF Told, Chain
      <3> QED
        BY <3>1, <3>2
    <2> QED
      BY <1>0, <1>4, <2>2, <2>3, <2>4 DEF Told, Chain
  <1> QED
    BY <1>3, <1>4

LEMMA RigTold ==
    ASSUME TypeOK, HasNonce, Told, NEW r \in Rigs, RigStep(r)
    PROVE Told'
  <1>0. pc \in [Rigs -> Places] /\ sol \in [Rigs -> 0 .. MaxChallenge]
    BY DEF TypeOK, Places
  <1>1. ASSUME NEW c \in {current, current - 1} \cap (1 .. MaxChallenge), Find(r, c)
        PROVE Told'
    <2>1. /\ UNCHANGED <<folder, file, pool, mined, vain>>
          /\ \A q \in Rigs \ {r} : pc'[q] = pc[q] /\ sol'[q] = sol[q]
          /\ pc[r] = "idle" /\ pc'[r] \in {"check", "nonce"}
          /\ folder \/ pc'[r] = "nonce"
      BY <1>0, <1>1 DEF Find, Goto, config, node
    <2> QED
      BY <2>1, MoveTold
  <1>2. ASSUME Claim(r) \/ FileError(r) \/ OpenFile(r) \/ TakeNonce(r) PROVE Told'
    <2>1. /\ UNCHANGED <<folder, pool, mined, vain, sol>>
          /\ file' \in {file, Nothing}
          /\ pc[r] \in {"check", "open", "nonce"} /\ pc'[r] \in {"open", "nonce", "write", "send"}
          /\ \A q \in Rigs \ {r} : pc'[q] = pc[q]
          /\ pc'[r] \in {"open", "write"} => pc[r] # "nonce"
      BY <1>0, <1>2 DEF Claim, FileError, OpenFile, TakeNonce, Goto, config, node
    <2>2. folder \/ pc'[r] \in {"nonce", "send"}
      BY <2>1, <1>0 DEF Told
    <2> QED
      BY <2>1, <2>2, MoveTold
  <1>3. ASSUME WriteFile(r) PROVE Told'
    <2>1. /\ UNCHANGED <<folder, pool, mined, vain, sol>> /\ file' = sol[r]
          /\ \A q \in Rigs \ {r} : pc'[q] = pc[q]
          /\ pc[r] = "write" /\ pc'[r] = "nonce"
      BY <1>0, <1>3 DEF WriteFile, Goto, config, node
    <2>2. folder /\ Submitted(sol[r])'
      BY <2>1 DEF Told, Submitted
    <2>3. \A c : c \in Chain => c \in Chain'
      BY <2>1 DEF Chain
    <2> QED
      BY <2>1, <2>2, <2>3 DEF Told, Chain, Submitted
  <1>4. ASSUME NonceError(r) \/ Refused(r) \/ SendError(r) PROVE Told'
    <2>1. /\ Return(r) /\ UNCHANGED <<folder, file, pool, mined>>
          /\ vain \subseteq vain' /\ (folder => sol[r] \in vain')
      BY <1>4 DEF NonceError, Refused, SendError, Wasted, ComesToNothing, config, node
    <2> QED
      BY <2>1, LeaveTold
  <1>5. ASSUME Skip(r) \/ Record(r) PROVE Told'
    <2>1. /\ Return(r) /\ UNCHANGED <<folder, file, pool, mined, vain>>
          /\ pc[r] \in {"check", "sent"}
      BY <1>5 DEF Skip, Record, config, node
    <2> QED
      BY <2>1, LeaveTold
  <1>6. ASSUME Restart(r) PROVE Told'
    <2>1. /\ Return(r) /\ UNCHANGED <<folder, file, pool, mined>>
          /\ vain \subseteq vain'
          /\ folder /\ pc[r] \in {"nonce", "send"} => sol[r] \in vain'
      BY <1>6 DEF Restart, Wasted, ComesToNothing, config, node
    <2> QED
      BY <2>1, LeaveTold
  <1>7. ASSUME CheckPending(r) PROVE Told'
    <2>1. UNCHANGED <<folder, file, pool, mined, vain, pc, sol>>
      BY <1>7 DEF CheckPending, config, node
    <2> QED
      BY <2>1 DEF Told, Submitted, Chain
  <1> QED
    BY <1>1, <1>2, <1>3, <1>4, <1>5, <1>6, <1>7, SendTold DEF RigStep, SubmitWorkSolo
-----------------------------------------------------------------------------
IInv == TypeOK /\ HasNonce /\ NoGaps /\ Ordered /\ Told

LEMMA InitInv == Init => IInv
  <1> SUFFICES ASSUME Init PROVE IInv
    OBVIOUS
  <1>1. TypeOK /\ HasNonce
    BY InitType
  <1>2. NoGaps
    <2>1. \A r \in Rigs : txNonce[r] = -1 /\ count[account[r]] = 0
      BY DEF Init, Unset
    <2> QED
      BY <2>1 DEF NoGaps
  <1>3. Ordered
    BY DEF Init, Ordered, Nothing
  <1>4. Told
    BY DEF Init, Told
  <1> QED
    BY <1>1, <1>2, <1>3, <1>4 DEF IInv

\* A rig's step preserves the invariant.
LEMMA RigInv ==
    ASSUME IInv, NEW r \in Rigs, RigStep(r)
    PROVE IInv'
  <1> USE DEF IInv
  <1>1. TypeOK' /\ HasNonce'
    <2>1. \A c \in 1 .. MaxChallenge : Find(r, c) => TypeOK' /\ HasNonce'
      BY FindType
    <2>2. SubmitWorkSolo(r) => TypeOK' /\ HasNonce'
      BY FileStepsType, TakeNonceType, FailuresType, SendType, RecordType DEF SubmitWorkSolo
    <2> QED
      BY <2>1, <2>2, CheckPendingType, RestartType DEF RigStep
  <1>2. NoGaps'
    <2>0. pc \in [Rigs -> Places]
      BY DEF TypeOK, Places
    <2>1. CASE \E c \in {current, current - 1} \cap (1 .. MaxChallenge) : Find(r, c)
      <3>1. /\ UNCHANGED <<account, count, txNonce, pool, lost>>
            /\ \A q \in Rigs : pc[q] = "send" => pc'[q] = "send"
        BY <2>0, <2>1 DEF Find, Goto, config, node
      <3> QED
        BY <3>1, AsideNoGaps
    <2>2. CASE \/ Skip(r) \/ Claim(r) \/ FileError(r) \/ OpenFile(r) \/ WriteFile(r)
               \/ NonceError(r) \/ Record(r)
      <3>1. UNCHANGED <<account, count, txNonce, pool, lost>>
        BY <2>2 DEF Skip, Claim, FileError, OpenFile, WriteFile, NonceError, Record, config, node
      <3>2. \A q \in Rigs : pc[q] = "send" => pc'[q] = "send"
        BY <2>0, <2>2
        DEF Skip, Claim, FileError, OpenFile, WriteFile, NonceError, Record, Goto, Return
      <3> QED
        BY <3>1, <3>2, AsideNoGaps
    <2>3. CASE CheckPending(r)
      <3>1. UNCHANGED <<account, count, txNonce, pool, lost, pc>>
        BY <2>3 DEF CheckPending, config, node
      <3> QED
        BY <3>1, AsideNoGaps
    <2> QED
      BY <2>1, <2>2, <2>3, TakeNonceNoGaps, SendNoGaps, FailuresNoGaps, RestartNoGaps
      DEF RigStep, SubmitWorkSolo
  <1>3. Ordered'
    BY RigOrdered
  <1>4. Told'
    BY RigTold
  <1> QED
    BY <1>1, <1>2, <1>3, <1>4

LEMMA NextInv == IInv /\ [Next]_vars => IInv'
  <1> SUFFICES ASSUME IInv, [Next]_vars PROVE IInv'
    OBVIOUS
  <1> USE DEF IInv
  <1>1. ASSUME NEW t \in pool, Mine(t) \/ Evict(t) PROVE IInv'
    BY <1>1, MineType, EvictType, NodeNoGaps, NodeOrdered, NodeTold
  <1>2. ASSUME Advance PROVE IInv'
    <2>1. NoGaps'
      <3>1. UNCHANGED <<account, count, txNonce, pool, lost, pc>>
        BY <1>2 DEF Advance, config, rig
      <3> QED
        BY <3>1, AsideNoGaps
    <2> QED
      BY <1>2, <2>1, AdvanceType, NodeOrdered, NodeTold
  <1>3. CASE UNCHANGED vars
    <2>1. TypeOK' /\ HasNonce' /\ Ordered'
      BY <1>3 DEF vars, config, rig, node, bounds, TypeOK, HasNonce, Ordered
    <2>2. NoGaps'
      BY <1>3 DEF vars, config, rig, node, NoGaps, Nonces
    <2>3. Told'
      BY <1>3 DEF vars, config, rig, node, Told, Submitted, Chain
    <2> QED
      BY <2>1, <2>2, <2>3
  <1> QED
    BY <1>1, <1>2, <1>3, RigInv DEF Next

THEOREM Invariance == Spec => []IInv
  <1> QED
    BY InitInv, NextInv, PTL DEF Spec

(* Type correctness; above all, no transaction is made without a nonce and  *)
(* a solution (FarmClient.h:202-258).                                       *)
THEOREM TypeCorrect == Spec => []TypeOK
  <1>1. IInv => TypeOK
    BY DEF IInv
  <1> QED
    BY <1>1, Invariance, PTL

(* However many rigs read and count the nonces of an account, none is left  *)
(* out but those whose call failed or that the node lost                    *)
(* (FarmClient.h:202-207).                                                  *)
THEOREM LeavesNoGaps == Spec => []NoGaps
  <1>1. IInv => NoGaps
    BY DEF IInv
  <1> QED
    BY <1>1, Invariance, PTL

(* challenge.txt makes no rig give a solution up unless another submitted   *)
(* one of this challenge, or tried (FarmClient.h:168-190).                  *)
THEOREM SkipsHaveReason == Spec => []SkipsWithReason
  <1>1. IInv => SkipsWithReason
    BY DEF IInv, TypeOK, Told, SkipsWithReason, Skips
  <1> QED
    BY <1>1, Invariance, PTL

(* checkPendingTransactions forgets no transaction before its challenge is  *)
(* solved or one of its transactions has failed (FarmClient.h:343-376).     *)
THEOREM FollowsToTheEnd == Spec => FollowedToTheEnd
  <1> DEFINE A == \A r \in Rigs : \A t \in pending[r] \ pending'[r] :
                     \/ t.challenge < current
                     \/ GivenUp(r, t.challenge)
                     \/ txNonce'[r] = Unset
  <1>1. IInv /\ [Next]_vars => [A]_vars
    <2> SUFFICES ASSUME IInv, Next, NEW r \in Rigs, NEW t \in pending[r] \ pending'[r]
                 PROVE \/ t.challenge < current
                       \/ GivenUp(r, t.challenge)
                       \/ txNonce'[r] = Unset
      OBVIOUS
    <2>0. pending \in [Rigs -> SUBSET Tx] /\ txNonce \in [Rigs -> Nat \cup {Unset}]
      BY DEF IInv, TypeOK
    <2>1. PICK q \in Rigs : RigStep(q)
      BY DEF Next, Mine, Evict, Advance, rig
    <2>2. CASE CheckPending(q)
      <3>1. PICK done \in SUBSET (pending[q] \cap mined) :
              pending' = [pending EXCEPT ![q] =
                             {u \in pending[q] : \A d \in done : u.challenge # d.challenge}]
        BY <2>2 DEF CheckPending
      <3>2. r = q
        BY <2>0, <3>1
      <3>3. PICK d \in done : t.challenge = d.challenge
        BY <2>0, <3>1, <3>2
      <3>4. CASE d \in failed
        BY <3>1, <3>2, <3>3, <3>4 DEF GivenUp
      <3>5. CASE d \notin failed
        BY <3>1, <3>3, <3>5 DEF IInv, Ordered
      <3> QED
        BY <3>4, <3>5
    <2>3. CASE Restart(q)
      BY <2>0, <2>3 DEF Restart
    <2>4. CASE \/ SubmitWorkSolo(q)
               \/ \E c \in {current, current - 1} \cap (1 .. MaxChallenge) : Find(q, c)
      <3>1. CASE Record(q)
        BY <2>0, <3>1 DEF Record
      <3>2. CASE ~Record(q)
        <4>1. pending' = pending
          BY <2>4, <3>2
          DEF SubmitWorkSolo, Find, Skip, Claim, FileError, OpenFile, WriteFile,
              TakeNonce, NonceError, Send, Refused, SendError
        <4> QED
          BY <4>1
      <3> QED
        BY <3>1, <3>2
    <2> QED
      BY <2>1, <2>2, <2>3, <2>4 DEF RigStep
  <1>2. FollowedToTheEnd <=> [][A]_vars
    BY DEF FollowedToTheEnd
  <1> QED
    BY <1>1, <1>2, Invariance, PTL DEF Spec
-----------------------------------------------------------------------------
(* What a client waits for *)

\* Of the transactions with t's account and nonce one was mined, or waits at
\* the node; or the nonce was lost by a failure.
Accounted(t) == \/ t.nonce < count[t.account]
                \/ t.nonce \in Nonces(t.account) \cup lost[t.account]

\* No client follows a transaction with a nonce that nobody will settle.
PendingAccounted == \A r \in Rigs : \A t \in pending[r] : Accounted(t)

\* After five quiet minutes the transaction that is sent is not held up by
\* any other: its nonce is settled, or the node can mine one with it now, or
\* it is lost.
FreshIsNext ==
    \A r \in Rigs : pc[r] = "sent" /\ fresh[r] =>
        \/ txNonce[r] < count[account[r]]
        \/ \E t \in pool : SameSlot(t, NextTx(r)) /\ t.nonce = count[t.account]
        \/ txNonce[r] \in lost[account[r]]

Sending == \A r \in Rigs :
              /\ pc[r] = "sent" => Accounted(NextTx(r))
              /\ pc[r] \in {"send", "sent"} /\ fresh[r] => txNonce[r] <= count[account[r]]

Waits == PendingAccounted /\ Sending

\* Nothing makes a nonce that is accounted for unaccounted for.
LEMMA StaysAccounted ==
    ASSUME IInv, [Next]_vars, NEW t \in Tx, Accounted(t)
    PROVE  Accounted(t)'
<1> DEFINE a == t.account
           n == t.nonce
<1>0. a \in Accounts /\ n \in Nat
  BY DEF Tx
<1>1. count \in [Accounts -> Nat] /\ lost \in [Accounts -> SUBSET Nat] /\ account \in [Rigs -> Accounts]
  BY DEF IInv, TypeOK
<1> HIDE DEF a, n
<1> SUFFICES n < count'[a] \/ n \in lost'[a] \/ \E u \in pool' : u.account = a /\ u.nonce = n
  BY DEF Accounted, Nonces, a, n
<1>2. n < count[a] \/ n \in lost[a] \/ \E u \in pool : u.account = a /\ u.nonce = n
  BY DEF Accounted, Nonces, a, n
<1>3. ASSUME NEW u \in pool, Mine(u) PROVE n < count'[a] \/ n \in lost'[a] \/ \E v \in pool' : v.account = a /\ v.nonce = n
  <2>1. u.account \in Accounts
    BY PoolType DEF IInv
  <2>2. CASE u.account = a /\ u.nonce = n
    BY <1>0, <1>1, <1>3, <2>1, <2>2 DEF Mine
  <2>3. CASE ~(u.account = a /\ u.nonce = n)
    <3>1. n < count[a] => n < count'[a]
      BY <1>0, <1>1, <1>3, <2>1 DEF Mine
    <3>2. n \in lost[a] => n \in lost'[a]
      BY <1>0, <1>1, <1>3, <2>1, <2>3 DEF Mine
    <3>3. (\E v \in pool : v.account = a /\ v.nonce = n) => \E v \in pool' : v.account = a /\ v.nonce = n
      BY <1>3, <2>3 DEF Mine
    <3> QED
      BY <1>2, <3>1, <3>2, <3>3
  <2> QED
    BY <2>2, <2>3
<1>4. ASSUME NEW u \in pool, Evict(u) PROVE n < count'[a] \/ n \in lost'[a] \/ \E v \in pool' : v.account = a /\ v.nonce = n
  <2>1. u.account \in Accounts
    BY PoolType DEF IInv
  <2> QED
    BY <1>0, <1>1, <1>2, <1>4, <2>1 DEF Evict
<1>5. ASSUME NEW r \in Rigs, Send(r) PROVE n < count'[a] \/ n \in lost'[a] \/ \E v \in pool' : v.account = a /\ v.nonce = n
  <2>1. NextTx(r).account = account[r] /\ NextTx(r).nonce = txNonce[r] /\ NextTx(r) \in pool'
    BY <1>5, NextTxType DEF Send, IInv
  <2>2. /\ count' = count
        /\ lost' = [lost EXCEPT ![account[r]] = @ \ {txNonce[r]}]
        /\ \A u \in pool : u \in pool' \/ (u.account = account[r] /\ u.nonce = txNonce[r])
    BY <1>5, <2>1 DEF Send, SameSlot
  <2>3. CASE account[r] = a /\ txNonce[r] = n
    BY <2>1, <2>3
  <2>4. CASE ~(account[r] = a /\ txNonce[r] = n)
    BY <1>0, <1>1, <1>2, <2>2, <2>4
  <2> QED
    BY <2>3, <2>4
<1>6. ASSUME NEW r \in Rigs, SendError(r) PROVE n < count'[a] \/ n \in lost'[a] \/ \E v \in pool' : v.account = a /\ v.nonce = n
  BY <1>0, <1>1, <1>2, <1>6 DEF SendError, node
<1>7. CASE UNCHANGED <<count, lost, pool>>
  BY <1>2, <1>7
<1>8. ASSUME NEW r \in Rigs, RigStep(r), ~Send(r), ~SendError(r) PROVE UNCHANGED <<count, lost,
                                                                                   pool>>
  BY <1>8 DEF RigStep, SubmitWorkSolo, Find, Skip, Claim, FileError, OpenFile, WriteFile, TakeNonce,
     NonceError, Refused, Record, CheckPending, Restart, node
<1> QED
  BY <1>3, <1>4, <1>5, <1>6, <1>7, <1>8 DEF Next, Advance, vars, node

\* The count of an account only grows.
LEMMA CountGrows ==
    ASSUME IInv, [Next]_vars, NEW b \in Accounts
    PROVE  count'[b] \in Nat /\ count[b] \in Nat /\ count[b] <= count'[b]
<1>1. count \in [Accounts -> Nat]
  BY DEF IInv, TypeOK
<1>2. ASSUME NEW u \in pool, Mine(u) PROVE count'[b] \in Nat /\ count[b] <= count'[b]
  <2>1. u.account \in Accounts
    BY PoolType DEF IInv
  <2> QED
    BY <1>1, <1>2, <2>1 DEF Mine
<1>3. ASSUME NEW r \in Rigs, RigStep(r) PROVE count' = count
  BY <1>3 DEF RigStep, SubmitWorkSolo, Find, Skip, Claim, FileError, OpenFile, WriteFile, TakeNonce,
     NonceError, Send, SendError, Refused, Record, CheckPending, Restart, node
<1> QED
  BY <1>1, <1>2, <1>3 DEF Next, Advance, Evict, vars, node

\* What a step does to the sending and following of rig q.
LEMMA SendingStep ==
    ASSUME IInv, [Next]_vars, NEW q \in Rigs
    PROVE  /\ pc'[q] = "sent" => \/ pc[q] = "sent" /\ NextTx(q)' = NextTx(q)
                                 \/ Send(q) /\ NextTx(q)' = NextTx(q) /\ NextTx(q) \in pool'
           /\ pc'[q] \in {"send", "sent"} /\ fresh'[q] =>
                 \/ pc[q] \in {"send", "sent"} /\ fresh[q] /\ txNonce'[q] = txNonce[q]
                 \/ txNonce'[q] = count[account[q]]
           /\ pending'[q] \subseteq pending[q] \cup (IF pc[q] = "sent" THEN {NextTx(q)} ELSE {})
           /\ account' = account
<1>0. /\ pc \in [Rigs -> Places] /\ sol \in [Rigs -> 0 .. MaxChallenge]
      /\ txNonce \in [Rigs -> Nat \cup {Unset}] /\ fresh \in [Rigs -> BOOLEAN]
      /\ pending \in [Rigs -> SUBSET Tx] /\ account \in [Rigs -> Accounts]
  BY DEF IInv, TypeOK, Places
<1>1. account' = account
  BY DEF Next, RigStep, SubmitWorkSolo, Find, Skip, Claim, FileError, OpenFile, WriteFile, TakeNonce,
     NonceError, Send, SendError, Refused, Record, CheckPending, Restart, Mine, Evict, Advance, config, vars
<1> DEFINE Same == /\ pc'[q] = pc[q] /\ sol'[q] = sol[q] /\ txNonce'[q] = txNonce[q]
                   /\ fresh'[q] = fresh[q] /\ pending'[q] = pending[q]
           Gone == pc'[q] \notin {"send", "sent"}
<1>2. NextTx(q)' = [rig |-> q, account |-> account[q], nonce |-> txNonce'[q], challenge |-> sol'[q]]
  BY <1>1 DEF NextTx
<1>3. CASE Same
  BY <1>1, <1>2, <1>3 DEF NextTx
<1>4. CASE Gone /\ pending'[q] \subseteq pending[q] \cup (IF pc[q] = "sent" THEN {NextTx(q)} ELSE {})
  BY <1>1, <1>4
<1>5. CASE TakeNonce(q)
  BY <1>0, <1>1, <1>5 DEF TakeNonce, Goto
<1>6. CASE Send(q)
  <2>1. CASE Goto(q, "sent") /\ UNCHANGED <<sol, fresh, faults>>
    BY <1>0, <1>1, <1>2, <1>6, <2>1 DEF Send, Goto, NextTx
  <2>2. CASE Return(q)
    BY <1>0, <1>1, <1>6, <2>2 DEF Send, Return, Goto
  <2> QED
    BY <1>6, <2>1, <2>2 DEF Send
<1>7. ASSUME NEW r \in Rigs, r # q, RigStep(r) PROVE Same
  BY <1>0, <1>7 DEF RigStep, SubmitWorkSolo, Find, Skip, Claim, FileError, OpenFile, WriteFile, TakeNonce,
     NonceError, Send, SendError, Refused, Record, CheckPending, Restart, Goto, Return
<1>8. CASE RigStep(q) /\ ~TakeNonce(q) /\ ~Send(q)
  <2>1. CASE Record(q)
    BY <1>0, <1>4, <2>1 DEF Record, Return, Goto
  <2>2. CASE Skip(q) \/ NonceError(q) \/ Refused(q) \/ SendError(q) \/ Restart(q)
    BY <1>0, <1>4, <2>2 DEF Skip, NonceError, Refused, SendError, Restart, Return, Goto
  <2>3. CASE Claim(q) \/ FileError(q) \/ OpenFile(q) \/ WriteFile(q)
    BY <1>0, <1>4, <2>3 DEF Claim, FileError, OpenFile, WriteFile, Goto
  <2>4. CASE CheckPending(q)
    BY <1>0, <1>1, <1>2, <2>4 DEF CheckPending, NextTx
  <2>5. CASE \E c \in {current, current - 1} \cap (1 .. MaxChallenge) : Find(q, c)
    BY <1>0, <1>4, <2>5 DEF Find, Goto
  <2> QED
    BY <1>8, <2>1, <2>2, <2>3, <2>4, <2>5 DEF RigStep, SubmitWorkSolo
<1>9. ASSUME (\E t \in pool : Mine(t) \/ Evict(t)) \/ Advance \/ UNCHANGED vars PROVE Same
  BY <1>9 DEF Mine, Evict, Advance, rig, vars
<1> QED
  BY <1>3, <1>5, <1>6, <1>7, <1>8, <1>9 DEF Next

LEMMA WaitsStep == IInv /\ Waits /\ [Next]_vars => Waits'
<1> SUFFICES ASSUME IInv, Waits, [Next]_vars, NEW r \in Rigs
             PROVE  /\ \A t \in pending'[r] : Accounted(t)'
                    /\ pc'[r] = "sent" => Accounted(NextTx(r))'
                    /\ pc'[r] \in {"send", "sent"} /\ fresh'[r] => txNonce'[r] <= count'[account'[r]]
  BY DEF Waits, PendingAccounted, Sending
<1>0. /\ account[r] \in Accounts /\ pending[r] \subseteq Tx /\ txNonce[r] \in Int
      /\ (pc[r] \in {"send", "sent"} => NextTx(r) \in Tx)
  BY NextTxType DEF IInv, TypeOK, Unset
<1>1. \A t \in pending'[r] : Accounted(t)'
  BY <1>0, SendingStep, StaysAccounted DEF Waits, PendingAccounted, Sending
<1>2. pc'[r] = "sent" => Accounted(NextTx(r))'
  <2>1. CASE pc[r] = "sent" /\ NextTx(r)' = NextTx(r)
    <3> DEFINE t == NextTx(r)
    <3>1. Accounted(t)'
      BY <1>0, <2>1, StaysAccounted DEF Waits, Sending
    <3> QED
      BY <2>1, <3>1 DEF Accounted
  <2>2. CASE NextTx(r)' = NextTx(r) /\ NextTx(r) \in pool'
    BY <2>2 DEF Accounted, Nonces
  <2> QED
    BY <2>1, <2>2, SendingStep
<1>3. pc'[r] \in {"send", "sent"} /\ fresh'[r] => txNonce'[r] <= count'[account'[r]]
  <2>1. count'[account[r]] \in Nat /\ count[account[r]] \in Nat /\ count[account[r]] <= count'[account[r]]
    BY <1>0, CountGrows
  <2> QED
    BY <1>0, <2>1, SendingStep DEF Waits, Sending
<1> QED
  BY <1>1, <1>2, <1>3

LEMMA WaitsInvariant == Spec => []Waits
<1>1. Init => Waits
  BY DEF Init, Waits, PendingAccounted, Sending
<1> QED
  BY <1>1, WaitsStep, Invariance, PTL DEF Spec

(* Whatever a client follows in m_pendingTxs has a nonce that is settled,   *)
(* that waits at the node, or that a failure has cost: with any number of   *)
(* rigs on the account, and whatever replaces whose transactions            *)
(* (FarmClient.h:254-258, 343-376).                                         *)
THEOREM FollowsWhatExists == Spec => []PendingAccounted
<1>1. Waits => PendingAccounted
  BY DEF Waits
<1> QED
  BY <1>1, WaitsInvariant, PTL

(* A transaction sent with a nonce that was read from the node stands       *)
(* behind no other, whatever gaps there are: FreshSettles without time      *)
(* (FarmClient.h:202-205).                                                  *)
THEOREM FreshIsNotHeldUp == Spec => []FreshIsNext
<1>1. IInv /\ Waits => FreshIsNext
  <2> SUFFICES ASSUME IInv, Waits, NEW r \in Rigs, pc[r] = "sent", fresh[r],
                      ~(txNonce[r] < count[account[r]]), txNonce[r] \notin lost[account[r]]
               PROVE  \E t \in pool : SameSlot(t, NextTx(r)) /\ t.nonce = count[t.account]
    BY DEF FreshIsNext
  <2>1. NextTx(r).account = account[r] /\ NextTx(r).nonce = txNonce[r]
    BY NextTxType DEF IInv
  <2>2. count[account[r]] \in Nat /\ txNonce[r] \in Int
    BY DEF IInv, TypeOK, Unset
  <2>3. txNonce[r] = count[account[r]]
    BY <2>2 DEF Waits, Sending
  <2>4. txNonce[r] \in Nonces(account[r])
    BY <2>1 DEF Waits, Sending, Accounted
  <2> QED
    BY <2>1, <2>3, <2>4 DEF Nonces, SameSlot
<1> QED
  BY <1>1, Invariance, WaitsInvariant, PTL
=============================================================================
