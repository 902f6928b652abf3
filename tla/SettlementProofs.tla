--------------------------- MODULE SettlementProofs ---------------------------
(***************************************************************************)
(* The inductive invariant of SettlementProgram, the types of the accounts  *)
(* and the match of slots and ledgers, one lemma per instruction; and what  *)
(* it gives: nobody walks away from a locked deal, and the program          *)
(* implements the bilateral deals of OtcDeals.                              *)
(***************************************************************************)
EXTENDS SettlementRefinement, TLAPS

(* Addresses taken apart and put together: a slot address is its ledger A and *)
(* its nonce, a ledger address its owner and its mint.                       *)
LEMMA Addresses ==
    /\ \A s \in Slots : /\ LedgerA(s) \in Ledgers /\ NonceOf(s) \in Nonces
                        /\ Initiator(s) \in Users
                        /\ Initiator(s) = LedgerA(s)[1]
                        /\ s = <<LedgerA(s), NonceOf(s)>>
    /\ \A l \in Ledgers, n \in Nonces :
          <<l, n>> \in Slots /\ LedgerA(<<l, n>>) = l /\ NonceOf(<<l, n>>) = n
    /\ \A u \in Users, m \in Mints : <<u, m>> \in Ledgers /\ <<u, m>>[1] = u
    /\ \A l \in Ledgers : l[1] \in Users
BY DEF Slots, Ledgers, LedgerA, NonceOf, Initiator

(* The accounts an instruction creates or closes hold values of their types. *)
LEMMA BlankAccounts ==
    /\ \A st \in LedgerStatus : /\ EmptyLedger(st) \in LedgerAccount
                                /\ EmptyLedger(st).status = st
    /\ NoPending \in PendingFields
    /\ NoSlot \in SlotAccount /\ NoSlot.status = "Absent"
BY DEF EmptyLedger, NoPending, NoSlot, LedgerAccount, SlotAccount, PendingFields,
       Payloads, LedgerStatus, SlotStatus

(* What setting a ledger's status preserves (the cancels, initiate, accept).  *)
LEMMA StatusChanged ==
    ASSUME NEW l \in LedgerAccount, NEW st \in LedgerStatus
    PROVE  /\ WithStatus(l, st) \in LedgerAccount
           /\ WithStatus(l, st).status = st
           /\ WithStatus(l, st).version = l.version
           /\ WithStatus(l, st).last_settlement_id = l.last_settlement_id
BY DEF WithStatus, LedgerAccount

(* What execute_settle_b leaves in a ledger.                                 *)
LEMMA SettledAccount ==
    ASSUME NEW l \in LedgerAccount, NEW ct \in Payloads, NEW r \in Payloads,
           NEW reg \in Payloads, NEW id \in Slots \X SettlementNonces
    PROVE  /\ Settled(l, ct, r, reg, id) \in LedgerAccount
           /\ Settled(l, ct, r, reg, id).status = "Active"
           /\ Settled(l, ct, r, reg, id).version = l.version + 1
BY DEF Settled, LedgerAccount, LedgerStatus

-----------------------------------------------------------------------------
(* Type correctness *)

(* No account exists at the start, so all are well typed.                    *)
LEMMA InitTypeOK == Init => TypeOK
<1> SUFFICES ASSUME Init PROVE TypeOK
  OBVIOUS
<1>1. ledger \in [Ledgers -> LedgerAccount] /\ pending \in [Ledgers -> PendingFields]
  BY BlankAccounts DEF Init, LedgerStatus
<1>2. slot \in [Slots -> SlotAccount]
  BY BlankAccounts DEF Init
<1>3. proofData \in [Nonces -> [0..5 -> Payloads]]
  BY DEF Init, Payloads
<1> QED
  BY <1>1, <1>2, <1>3 DEF Init, TypeOK

(* initiate_commit writes well-typed accounts: the hash it stores is not the  *)
(* empty one, which its guard refuses.                                       *)
LEMMA InitiateTypeOK ==
    ASSUME TypeOK, NEW a \in Ledgers, Initiate(a)
    PROVE  TypeOK'
<1> PICK n \in Nonces, u \in Users, m \in Mints, h \in Hashes \cup {Zero},
         w \in 0..(MAX_INIT_WINDOW + 1) : InitiateCommit(a, n, u, m, h, now + w)
  BY DEF Initiate
<1> DEFINE e == now + w
<1>1. e \in Int /\ h \in Hashes
  BY DEF InitiateCommit, TypeOK
<1> HIDE DEF e
<1>2. ledger' \in [Ledgers -> LedgerAccount]
  BY StatusChanged DEF InitiateCommit, TypeOK, LedgerStatus
<1>3. pending' \in [Ledgers -> PendingFields]
  <2>1. [commitment |-> h, expiry |-> e, counterparty |-> u,
         asset_b_mint |-> m, nonce |-> n] \in PendingFields
    BY <1>1, NonceAssumption DEF PendingFields
  <2> QED
    BY <2>1 DEF InitiateCommit, TypeOK, e
<1>4. slot' \in [Slots -> SlotAccount]
  <2>1. [status |-> "WaitingAccept", counterparty |-> u, asset_b_mint |-> m,
         commitment_hash |-> h, expiry_init |-> e, both_locked_at |-> 0,
         execute_expiry |-> 0] \in SlotAccount
    BY <1>1 DEF SlotAccount, SlotStatus
  <2> QED
    BY <2>1 DEF InitiateCommit, TypeOK, e
<1> QED
  BY <1>2, <1>3, <1>4 DEF InitiateCommit, TypeOK

(* accept_commit writes well-typed accounts.                                 *)
LEMMA AcceptTypeOK ==
    ASSUME TypeOK, NEW u \in Users, NEW s \in Slots, AcceptCommit(u, s)
    PROVE  TypeOK'
<1> DEFINE a == LedgerA(s)
           b == <<u, slot[s].asset_b_mint>>
<1>1. ledger' \in [Ledgers -> LedgerAccount]
  BY StatusChanged DEF AcceptCommit, CanAccept, TypeOK, LedgerStatus
<1>2. pending' \in [Ledgers -> PendingFields]
  <2>1. a[1] \in Users /\ pending[a].nonce \in Nat
    BY Addresses DEF TypeOK, PendingFields
  <2>2. b \in Ledgers => [pending[b] EXCEPT !.counterparty = a[1],
                                         !.nonce = pending[a].nonce] \in PendingFields
    BY <2>1 DEF TypeOK, PendingFields
  <2> QED
    BY <2>2 DEF AcceptCommit, CanAccept, TypeOK
<1>3. slot' \in [Slots -> SlotAccount]
  <2>1. now \in Int /\ now + EXECUTE_WINDOW \in Int
    BY WindowAssumption DEF TypeOK
  <2>2. [slot[s] EXCEPT !.status = "BothLocked", !.both_locked_at = now,
                        !.execute_expiry = now + EXECUTE_WINDOW] \in SlotAccount
    BY <2>1 DEF TypeOK, SlotAccount, SlotStatus
  <2> QED
    BY <2>2 DEF AcceptCommit, CanAccept, TypeOK
<1> QED
  BY <1>1, <1>2, <1>3 DEF AcceptCommit, CanAccept, TypeOK

(* execute_settle_b writes well-typed accounts, given that a locked slot      *)
(* names two ledgers: it writes into the ledger B the slot names.            *)
LEMMA ExecuteTypeOK ==
    ASSUME TypeOK, LockSlotMatch, NEW s \in Slots, Execute(s)
    PROVE  TypeOK'
<1> PICK n \in Nonces, k \in SettlementNonces,
         r_a \in Encryptions \cup {Zero}, r_b \in Encryptions \cup {Zero} :
           ExecuteSettleB(s, n, k, r_a, r_b)
  BY DEF Execute
<1> DEFINE a == LedgerA(s)
           b == LedgerB(s)
           id == <<s, k>>
<1>1. a \in Ledgers /\ b \in Ledgers /\ id \in Slots \X SettlementNonces
  BY Addresses DEF ExecuteSettleB, LockSlotMatch, LockedHoldsBoth, BothLocked, LedgerB
<1>2. /\ \A c \in 0..5 : proofData[n][c] \in Payloads
      /\ r_a \in Payloads /\ r_b \in Payloads
  BY DEF TypeOK, Payloads
<1>3. /\ Settled(ledger[a], proofData[n][1], r_a, proofData[n][4], id) \in LedgerAccount
      /\ Settled(ledger[b], proofData[n][3], r_b, proofData[n][5], id) \in LedgerAccount
  <2>1. ledger[a] \in LedgerAccount /\ ledger[b] \in LedgerAccount
    BY <1>1 DEF TypeOK
  <2>2. /\ proofData[n][1] \in Payloads /\ proofData[n][3] \in Payloads
        /\ proofData[n][4] \in Payloads /\ proofData[n][5] \in Payloads
    BY <1>2
  <2> HIDE DEF a, b, id
  <2> QED
    BY <1>1, <1>2, <2>1, <2>2, SettledAccount
<1>4. ledger' \in [Ledgers -> LedgerAccount]
  BY <1>1, <1>3 DEF ExecuteSettleB, TypeOK
<1>5. pending' \in [Ledgers -> PendingFields] /\ slot' \in [Slots -> SlotAccount]
  BY BlankAccounts DEF ExecuteSettleB, TypeOK
<1>6. records' \subseteq RecordType
  <2>1. slot[s].commitment_hash \in Hashes
    BY DEF LockSlotMatch, TermsAgree, Exists, ExecuteSettleB
  <2>2. ledger[a].version + 1 \in Nat /\ ledger[b].version + 1 \in Nat
    BY <1>1 DEF TypeOK, LedgerAccount
  <2>3. [id |-> id, ledger_a |-> a, ledger_b |-> b,
         commitment_hash |-> slot[s].commitment_hash,
         version_a |-> ledger[a].version + 1,
         version_b |-> ledger[b].version + 1, settled_at |-> now] \in RecordType
    BY <1>1, <2>1, <2>2 DEF RecordType, TypeOK
  <2> QED
    BY <2>3 DEF ExecuteSettleB, TypeOK
<1> QED
  BY <1>4, <1>5, <1>6 DEF ExecuteSettleB, TypeOK

(* Both cancels write well-typed accounts.                                   *)
LEMMA CancelTypeOK ==
    ASSUME TypeOK, NEW s \in Slots, CancelInitiate(s) \/ CancelMutual(s)
    PROVE  TypeOK'
<1>1. CASE CancelInitiate(s)
  BY <1>1, StatusChanged, BlankAccounts DEF CancelInitiate, CanCancelInitiate, TypeOK, LedgerStatus
<1>2. CASE CancelMutual(s)
  BY <1>2, StatusChanged, BlankAccounts DEF CancelMutual, CanCancelMutual, TypeOK, LedgerStatus
<1> QED
  BY <1>1, <1>2

(* Creating and writing proof accounts keeps the types.                      *)
LEMMA ProofDataTypeOK ==
    ASSUME TypeOK,
           \/ \E n \in ProofNonces : CreateProofData(n)
           \/ \E s \in Slots : WriteChunk(s)
    PROVE  TypeOK'
<1>1. ASSUME NEW n \in ProofNonces, CreateProofData(n)
      PROVE  TypeOK'
  <2>1. [c \in 0..5 |-> Zero] \in [0..5 -> Payloads]
    BY DEF Payloads
  <2> QED
    BY <1>1, <2>1, NonceAssumption DEF CreateProofData, TypeOK
<1>2. ASSUME NEW s \in Slots, WriteChunk(s)
      PROVE  TypeOK'
  <2>1. PICK u \in Users, c \in Chunks, p \in Hashes \cup Encryptions :
               WriteProofData(u, s, c, p)
    BY <1>2 DEF WriteChunk
  <2>2. [proofData[NonceOf(s)] EXCEPT ![c] = p] \in [0..5 -> Payloads]
    BY Addresses DEF TypeOK, Payloads
  <2> QED
    BY <2>1, <2>2 DEF WriteProofData, TypeOK
<1> QED
  BY <1>1, <1>2

(* Every step keeps the types of all accounts.                               *)
LEMMA NextTypeOK ==
    ASSUME TypeOK, LockSlotMatch, [Next]_vars
    PROVE  TypeOK'
<1>1. CASE InitializePool
  BY <1>1 DEF InitializePool, TypeOK
<1>2. ASSUME NEW a \in Ledgers, CreateUserLedger(a)
      PROVE  TypeOK'
  BY <1>2, BlankAccounts DEF CreateUserLedger, TypeOK, LedgerStatus
<1>3. CASE Tick
  BY <1>3 DEF Tick, TypeOK
<1>4. CASE UNCHANGED vars
  BY <1>4 DEF vars, TypeOK
<1> QED
  BY <1>1, <1>2, <1>3, <1>4, InitiateTypeOK, AcceptTypeOK, ExecuteTypeOK,
     CancelTypeOK, ProofDataTypeOK DEF Next

-----------------------------------------------------------------------------
(* Slots and ledgers stay matched *)

(* The status of a ledger outside LockSlotMatch's reach: a free ledger is in *)
(* no slot, neither as ledger A nor, in a locked one, as ledger B.           *)
LEMMA FreeLedgerInNoSlot ==
    ASSUME TypeOK, LockSlotMatch, NEW l \in Ledgers,
           ledger[l].status \in {"Absent", "Active"}
    PROVE  \A t \in Slots : /\ Exists(t) => LedgerA(t) # l
                            /\ BothLocked(t) => LedgerB(t) # l
BY DEF LockSlotMatch, WaitingMatchesA, LockedHoldsBoth, Waiting, BothLocked, Exists,
       TypeOK, SlotAccount, SlotStatus

(* A locked slot names two different ledgers.                                *)
LEMMA LockedLedgers ==
    ASSUME LockSlotMatch
    PROVE  \A t \in Slots : BothLocked(t) =>
             /\ LedgerA(t) \in Ledgers /\ LedgerB(t) \in Ledgers
             /\ LedgerA(t) # LedgerB(t)
BY Addresses DEF LockSlotMatch, LockedHoldsBoth, LedgerB

(* With no slot and no ledger there is nothing to match.                     *)
LEMMA InitLockSlotMatch == Init => LockSlotMatch
<1> SUFFICES ASSUME Init PROVE LockSlotMatch
  OBVIOUS
<1>1. /\ \A s \in Slots : slot[s].status = "Absent"
      /\ \A l \in Ledgers : ledger[l].status = "Absent" /\ pending[l] = NoPending
  BY BlankAccounts DEF Init, LedgerStatus
<1> QED
  BY <1>1 DEF LockSlotMatch, WaitingMatchesA, LockedHoldsBoth, TermsAgree, NothingStale,
              EveryLockHasSlot, OneDealPerCounterparty, Waiting, BothLocked, Exists

(* initiate_commit locks a free ledger for the slot it creates.              *)
LEMMA InitiateLockSlotMatch ==
    ASSUME TypeOK, LockSlotMatch, NEW a \in Ledgers, Initiate(a)
    PROVE  LockSlotMatch'
<1> PICK n \in Nonces, u \in Users, m \in Mints, h \in Hashes \cup {Zero},
         w \in 0..(MAX_INIT_WINDOW + 1) : InitiateCommit(a, n, u, m, h, now + w)
  BY DEF Initiate
<1> DEFINE s == <<a, n>>
           e == now + w
<1>1. s \in Slots /\ LedgerA(s) = a /\ NonceOf(s) = n /\ Initiator(s) = a[1]
  BY Addresses
<1>2. h \in Hashes /\ u # a[1] /\ ~Exists(s) /\ ledger[a].status = "Active"
  BY DEF InitiateCommit
<1>3. /\ ledger'[a].status = "PendingInitiator"
      /\ \A l \in Ledgers : l # a => ledger'[l] = ledger[l]
  BY StatusChanged DEF InitiateCommit, TypeOK, LedgerStatus
<1>4. /\ pending'[a] = [commitment |-> h, expiry |-> e, counterparty |-> u,
                        asset_b_mint |-> m, nonce |-> n]
      /\ \A l \in Ledgers : l # a => pending'[l] = pending[l]
  BY DEF InitiateCommit, TypeOK
<1>5. /\ slot'[s] = [status |-> "WaitingAccept", counterparty |-> u,
                     asset_b_mint |-> m, commitment_hash |-> h, expiry_init |-> e,
                     both_locked_at |-> 0, execute_expiry |-> 0]
      /\ \A t \in Slots : t # s => slot'[t] = slot[t]
  BY <1>1 DEF InitiateCommit, TypeOK
<1>6. \A t \in Slots : /\ Exists(t) => LedgerA(t) # a
                       /\ BothLocked(t) => LedgerB(t) # a
  BY <1>2, FreeLedgerInNoSlot
<1> HIDE DEF s, e
<1>7. WaitingMatchesA'
  BY <1>1, <1>2, <1>3, <1>5, <1>6, Addresses
     DEF LockSlotMatch, WaitingMatchesA, Waiting, Exists
<1>8. \A t \in Slots : BothLocked(t)' =>
        /\ BothLocked(t) /\ t # s
        /\ LedgerA(t) # a /\ LedgerB(t) # a
        /\ LedgerB(t)' = LedgerB(t)
  BY <1>1, <1>5, <1>6 DEF BothLocked, LedgerB, Exists
<1>9. LockedHoldsBoth'
  BY <1>3, <1>4, <1>5, <1>8, Addresses, LockedLedgers
     DEF LockSlotMatch, LockedHoldsBoth, BothLocked
<1>10. TermsAgree'
  BY <1>1, <1>2, <1>4, <1>5, <1>6, Addresses DEF LockSlotMatch, TermsAgree, Exists
<1>11. NothingStale'
  BY <1>3, <1>4 DEF LockSlotMatch, NothingStale
<1>12. EveryLockHasSlot'
  <2>1. ASSUME NEW l \in Ledgers
        PROVE  /\ ledger'[l].status \in {"PendingInitiator", "BothPending"}
                    => pending'[l].nonce \in Nonces
               /\ ledger'[l].status = "PendingInitiator"
                    => Waiting(<<l, pending[l].nonce>>)'
               /\ ledger'[l].status = "BothPending"
                    => BothLocked(<<l, pending[l].nonce>>)'
    <3>1. CASE l = a
      BY <3>1, <1>3, <1>4, <1>5 DEF Waiting, s
    <3>2. CASE l # a
      <4>1. ledger'[l] = ledger[l] /\ pending'[l] = pending[l]
        BY <3>2, <1>3, <1>4
      <4>2. pending[l].nonce \in Nonces =>
              slot'[<<l, pending[l].nonce>>] = slot[<<l, pending[l].nonce>>]
        BY <3>2, <1>1, <1>5, Addresses
      <4> QED
        BY <4>1, <4>2 DEF LockSlotMatch, EveryLockHasSlot, Waiting, BothLocked
    <3> QED
      BY <3>1, <3>2
  <2>2. ASSUME NEW l \in Ledgers, ledger'[l].status = "PendingCounterparty"
        PROVE  \E t \in Slots : BothLocked(t)' /\ LedgerB(t)' = l
    <3>1. l # a /\ ledger[l].status = "PendingCounterparty"
      BY <2>2, <1>3
    <3>2. PICK t \in Slots : BothLocked(t) /\ LedgerB(t) = l
      BY <3>1 DEF LockSlotMatch, EveryLockHasSlot
    <3>3. slot'[t] = slot[t]
      BY <3>2, <1>2, <1>5 DEF BothLocked, Exists
    <3> QED
      BY <3>2, <3>3 DEF BothLocked, LedgerB
  <2> QED
    BY <2>1, <2>2 DEF EveryLockHasSlot
<1>13. OneDealPerCounterparty'
  BY <1>8 DEF LockSlotMatch, OneDealPerCounterparty
<1> QED
  BY <1>7, <1>9, <1>10, <1>11, <1>12, <1>13 DEF LockSlotMatch

(* accept_commit locks the waiting slot, its ledger A and a free ledger B:    *)
(* the slot of no other deal changes.                                        *)
LEMMA AcceptLockSlotMatch ==
    ASSUME TypeOK, LockSlotMatch, NEW u \in Users, NEW s \in Slots,
           AcceptCommit(u, s)
    PROVE  LockSlotMatch'
<1> DEFINE a == LedgerA(s)
           b == <<u, slot[s].asset_b_mint>>
<1>1. /\ Waiting(s) /\ Exists(s) /\ slot[s].counterparty = u
      /\ ledger[a].status = "PendingInitiator" /\ ledger[b].status = "Active"
      /\ pending[a].nonce = NonceOf(s)
  BY DEF AcceptCommit, CanAccept, Waiting, Exists
<1>2. /\ a \in Ledgers /\ b \in Ledgers /\ a # b /\ LedgerB(s) = b
      /\ u # Initiator(s) /\ slot[s].asset_b_mint \in Mints
  BY <1>1, Addresses DEF LockSlotMatch, WaitingMatchesA, LedgerB
<1>3. /\ ledger'[a].status = "BothPending"
      /\ ledger'[b].status = "PendingCounterparty"
      /\ \A l \in Ledgers : l # a /\ l # b => ledger'[l] = ledger[l]
  BY <1>2, StatusChanged DEF AcceptCommit, CanAccept, TypeOK, LedgerStatus
<1>4. /\ pending'[b].counterparty = Initiator(s) /\ pending'[b].nonce = NonceOf(s)
      /\ \A l \in Ledgers : l # b => pending'[l] = pending[l]
  BY <1>1, <1>2, Addresses DEF AcceptCommit, CanAccept, TypeOK, PendingFields
<1>5. /\ slot'[s].status = "BothLocked"
      /\ slot'[s].counterparty = u
      /\ slot'[s].asset_b_mint = slot[s].asset_b_mint
      /\ slot'[s].commitment_hash = slot[s].commitment_hash
      /\ slot'[s].expiry_init = slot[s].expiry_init
      /\ \A t \in Slots : t # s => slot'[t] = slot[t]
  BY <1>1 DEF AcceptCommit, CanAccept, TypeOK, SlotAccount
<1>6. \A t \in Slots : /\ Exists(t) => LedgerA(t) # b
                       /\ BothLocked(t) => LedgerB(t) # b
  BY <1>1, <1>2, FreeLedgerInNoSlot
<1>7. \A t \in Slots : Exists(t) /\ LedgerA(t) = a => t = s
  BY <1>1, Addresses DEF LockSlotMatch, TermsAgree
<1>8. \A t \in Slots : BothLocked(t) => LedgerB(t) # a
  BY <1>1 DEF LockSlotMatch, LockedHoldsBoth
<1>9. \A t \in Slots : t # s => /\ BothLocked(t)' <=> BothLocked(t)
                               /\ Waiting(t)' <=> Waiting(t)
                               /\ LedgerB(t)' = LedgerB(t)
  BY <1>5 DEF BothLocked, Waiting, LedgerB
<1>10. BothLocked(s)' /\ ~Waiting(s)' /\ LedgerB(s)' = b
  BY <1>5 DEF BothLocked, Waiting, LedgerB
<1> HIDE DEF a, b
<1>11. WaitingMatchesA'
  BY <1>3, <1>5, <1>6, <1>7, <1>9, <1>10, Addresses
     DEF LockSlotMatch, WaitingMatchesA, Waiting, Exists
<1>12. LockedHoldsBoth'
  <2>1. ASSUME NEW t \in Slots, BothLocked(t), t # s
        PROVE  /\ ledger'[LedgerA(t)].status = "BothPending"
               /\ slot'[t].counterparty \in Users \ {Initiator(t)}
               /\ slot'[t].asset_b_mint \in Mints
               /\ ledger'[LedgerB(t)].status = "PendingCounterparty"
               /\ pending'[LedgerB(t)].counterparty = Initiator(t)
               /\ pending'[LedgerB(t)].nonce = NonceOf(t)
    <3>1. LedgerA(t) # a /\ LedgerA(t) # b /\ LedgerB(t) # a /\ LedgerB(t) # b
      BY <2>1, <1>6, <1>7, <1>8 DEF BothLocked, Exists
    <3> QED
      BY <2>1, <3>1, <1>3, <1>4, <1>5, LockedLedgers
         DEF LockSlotMatch, LockedHoldsBoth
  <2>2. /\ LedgerA(s) = a /\ slot'[s].counterparty \in Users \ {Initiator(s)}
        /\ slot'[s].asset_b_mint \in Mints
    BY <1>2, <1>5 DEF a
  <2>3. /\ ledger'[LedgerA(s)].status = "BothPending"
        /\ ledger'[LedgerB(s)'].status = "PendingCounterparty"
        /\ pending'[LedgerB(s)'].counterparty = Initiator(s)
        /\ pending'[LedgerB(s)'].nonce = NonceOf(s)
    BY <2>2, <1>3, <1>4, <1>10
  <2> QED
    BY <2>1, <2>2, <2>3, <1>5 DEF LockedHoldsBoth, BothLocked, LedgerB
<1>13. TermsAgree'
  <2>1. ASSUME NEW t \in Slots, Exists(t)
        PROVE  pending'[LedgerA(t)] = pending[LedgerA(t)]
    BY <2>1, <1>4, <1>6, Addresses
  <2>2. \A t \in Slots : Exists(t)' => Exists(t)
    BY <1>1, <1>5 DEF Exists
  <2> QED
    BY <2>1, <2>2, <1>5, <1>1 DEF LockSlotMatch, TermsAgree
<1>14. NothingStale'
  BY <1>1, <1>3, <1>4 DEF LockSlotMatch, NothingStale
<1>15. EveryLockHasSlot'
  <2>1. ASSUME NEW l \in Ledgers
        PROVE  /\ ledger'[l].status \in {"PendingInitiator", "BothPending"}
                    => pending'[l].nonce \in Nonces
               /\ ledger'[l].status = "PendingInitiator"
                    => Waiting(<<l, pending[l].nonce>>)'
               /\ ledger'[l].status = "BothPending"
                    => BothLocked(<<l, pending[l].nonce>>)'
    <3>1. CASE l = a
      <4>1. pending'[a] = pending[a] /\ <<a, pending[a].nonce>> = s
        BY <1>1, <1>2, <1>4, Addresses DEF a
      <4> QED
        BY <3>1, <4>1, <1>1, <1>3, <1>10, Addresses DEF BothLocked
    <3>2. CASE l = b
      BY <3>2, <1>3
    <3>3. CASE l # a /\ l # b
      <4>1. ledger'[l] = ledger[l] /\ pending'[l] = pending[l]
        BY <3>3, <1>3, <1>4
      <4>2. pending[l].nonce \in Nonces =>
              slot'[<<l, pending[l].nonce>>] = slot[<<l, pending[l].nonce>>]
        BY <3>3, <1>5, Addresses DEF a
      <4> QED
        BY <4>1, <4>2 DEF LockSlotMatch, EveryLockHasSlot, Waiting, BothLocked
    <3> QED
      BY <3>1, <3>2, <3>3
  <2>2. ASSUME NEW l \in Ledgers, ledger'[l].status = "PendingCounterparty"
        PROVE  \E t \in Slots : BothLocked(t)' /\ LedgerB(t)' = l
    <3>1. CASE l = b
      BY <3>1, <1>10
    <3>2. CASE l # b
      <4>1. ledger[l].status = "PendingCounterparty"
        BY <2>2, <3>2, <1>3
      <4>2. PICK t \in Slots : BothLocked(t) /\ LedgerB(t) = l
        BY <4>1 DEF LockSlotMatch, EveryLockHasSlot
      <4>3. t # s
        BY <4>2, <1>1 DEF BothLocked, Waiting
      <4> QED
        BY <4>2, <4>3, <1>5 DEF BothLocked, LedgerB
    <3> QED
      BY <3>1, <3>2
  <2> QED
    BY <2>1, <2>2 DEF EveryLockHasSlot
<1>16. OneDealPerCounterparty'
  BY <1>5, <1>6, <1>10
     DEF LockSlotMatch, OneDealPerCounterparty, BothLocked, LedgerB
<1> QED
  BY <1>11, <1>12, <1>13, <1>14, <1>15, <1>16 DEF LockSlotMatch

(* execute_settle_b, cancel_initiate and cancel_mutual all close one slot and *)
(* free exactly the ledgers it locks; E is that set of ledgers.              *)
LEMMA ClosingSlotLockSlotMatch ==
    ASSUME TypeOK, LockSlotMatch, NEW s \in Slots, Exists(s), NEW E,
           LedgerA(s) \in E,
           \A l \in E : l = LedgerA(s) \/ (BothLocked(s) /\ l = LedgerB(s)),
           BothLocked(s) => LedgerB(s) \in E,
           \A l \in Ledgers :
              /\ l \in E => ledger'[l].status = "Active" /\ pending'[l] = NoPending
              /\ l \notin E => ledger'[l] = ledger[l] /\ pending'[l] = pending[l],
           slot'[s] = NoSlot, \A t \in Slots : t # s => slot'[t] = slot[t]
    PROVE  LockSlotMatch'
<1>1. ASSUME NEW t \in Slots, t # s, Exists(t)
      PROVE  LedgerA(t) \notin E
  <2>1. LedgerA(t) # LedgerA(s)
    BY <1>1, Addresses DEF LockSlotMatch, TermsAgree
  <2>2. BothLocked(s) => LedgerA(t) # LedgerB(s)
    BY <1>1 DEF LockSlotMatch, WaitingMatchesA, LockedHoldsBoth, Waiting, BothLocked,
                Exists, TypeOK, SlotAccount, SlotStatus
  <2> QED
    BY <2>1, <2>2
<1>2. ASSUME NEW t \in Slots, t # s, BothLocked(t)
      PROVE  LedgerB(t) \notin E
  <2>1. LedgerB(t) # LedgerA(s)
    BY <1>2 DEF LockSlotMatch, WaitingMatchesA, LockedHoldsBoth, Waiting, BothLocked,
                Exists, TypeOK, SlotAccount, SlotStatus
  <2>2. BothLocked(s) => LedgerB(t) # LedgerB(s)
    BY <1>2 DEF LockSlotMatch, OneDealPerCounterparty
  <2> QED
    BY <2>1, <2>2
<1>3. slot'[s].status = "Absent"
  BY BlankAccounts
<1>4. WaitingMatchesA'
  BY <1>1, <1>3, Addresses DEF LockSlotMatch, WaitingMatchesA, Waiting, Exists
<1>5. LockedHoldsBoth'
  <2>1. ASSUME NEW t \in Slots, BothLocked(t), t # s
        PROVE  /\ ledger'[LedgerA(t)] = ledger[LedgerA(t)]
               /\ ledger'[LedgerB(t)] = ledger[LedgerB(t)]
               /\ pending'[LedgerB(t)] = pending[LedgerB(t)]
    BY <2>1, <1>1, <1>2, LockedLedgers DEF BothLocked, Exists
  <2> QED
    BY <2>1, <1>3 DEF LockSlotMatch, LockedHoldsBoth, BothLocked, LedgerB
<1>6. TermsAgree'
  <2>1. ASSUME NEW t \in Slots, Exists(t), t # s
        PROVE  pending'[LedgerA(t)] = pending[LedgerA(t)]
    BY <2>1, <1>1, Addresses
  <2> QED
    BY <2>1, <1>3 DEF LockSlotMatch, TermsAgree, Exists
<1>7. NothingStale'
  BY DEF LockSlotMatch, NothingStale
<1>8. EveryLockHasSlot'
  <2>1. ASSUME NEW l \in Ledgers
        PROVE  /\ ledger'[l].status \in {"PendingInitiator", "BothPending"}
                    => pending'[l].nonce \in Nonces
               /\ ledger'[l].status = "PendingInitiator"
                    => Waiting(<<l, pending[l].nonce>>)'
               /\ ledger'[l].status = "BothPending"
                    => BothLocked(<<l, pending[l].nonce>>)'
    <3>1. CASE l \in E
      BY <3>1
    <3>2. CASE l \notin E
      <4>1. ledger'[l] = ledger[l] /\ pending'[l] = pending[l]
        BY <3>2
      <4>2. pending[l].nonce \in Nonces =>
              slot'[<<l, pending[l].nonce>>] = slot[<<l, pending[l].nonce>>]
        BY <3>2, Addresses
      <4> QED
        BY <4>1, <4>2 DEF LockSlotMatch, EveryLockHasSlot, Waiting, BothLocked
    <3> QED
      BY <3>1, <3>2
  <2>2. ASSUME NEW l \in Ledgers, ledger'[l].status = "PendingCounterparty"
        PROVE  \E t \in Slots : BothLocked(t)' /\ LedgerB(t)' = l
    <3>1. l \notin E /\ ledger[l].status = "PendingCounterparty"
      BY <2>2
    <3>2. PICK t \in Slots : BothLocked(t) /\ LedgerB(t) = l
      BY <3>1 DEF LockSlotMatch, EveryLockHasSlot
    <3>3. t # s
      BY <3>1, <3>2
    <3> QED
      BY <3>2, <3>3 DEF BothLocked, LedgerB
  <2> QED
    BY <2>1, <2>2 DEF EveryLockHasSlot
<1>9. OneDealPerCounterparty'
  BY <1>3 DEF LockSlotMatch, OneDealPerCounterparty, BothLocked, LedgerB
<1> QED
  BY <1>4, <1>5, <1>6, <1>7, <1>8, <1>9 DEF LockSlotMatch

(* What execute_settle_b and cancel_mutual need of the slot they end.        *)
LEMMA LockedSlotIdentity ==
    ASSUME LockSlotMatch, NEW s \in Slots, BothLocked(s)
    PROVE  /\ Exists(s) /\ LedgerA(s) \in Ledgers /\ LedgerB(s) \in Ledgers
           /\ LedgerA(s) # LedgerB(s)
BY LockedLedgers DEF BothLocked, Exists

(* execute_settle_b closes its slot and frees both ledgers.                  *)
LEMMA ExecuteLockSlotMatch ==
    ASSUME TypeOK, LockSlotMatch, NEW s \in Slots, Execute(s)
    PROVE  LockSlotMatch'
<1> PICK n \in Nonces, k \in SettlementNonces,
         r_a \in Encryptions \cup {Zero}, r_b \in Encryptions \cup {Zero} :
           ExecuteSettleB(s, n, k, r_a, r_b)
  BY DEF Execute
<1> DEFINE a == LedgerA(s)
           b == LedgerB(s)
<1>1. BothLocked(s)
  BY DEF ExecuteSettleB, BothLocked
<1>2. Exists(s) /\ a \in Ledgers /\ b \in Ledgers /\ a # b
  BY <1>1, LockedSlotIdentity
<1>3. /\ ledger'[a].status = "Active" /\ ledger'[b].status = "Active"
      /\ \A l \in Ledgers : l \notin {a, b} => ledger'[l] = ledger[l]
  BY <1>2 DEF ExecuteSettleB, TypeOK, Settled
<1>4. /\ pending'[a] = NoPending /\ pending'[b] = NoPending
      /\ \A l \in Ledgers : l \notin {a, b} => pending'[l] = pending[l]
  BY <1>2 DEF ExecuteSettleB, TypeOK
<1>5. slot'[s] = NoSlot /\ \A t \in Slots : t # s => slot'[t] = slot[t]
  BY DEF ExecuteSettleB, TypeOK
<1> DEFINE E == {a, b}
<1>6. /\ a \in E /\ b \in E /\ \A l \in E : l = a \/ l = b
      /\ \A l \in Ledgers :
           /\ l \in E => ledger'[l].status = "Active" /\ pending'[l] = NoPending
           /\ l \notin E => ledger'[l] = ledger[l] /\ pending'[l] = pending[l]
  BY <1>3, <1>4
<1> HIDE DEF E
<1> QED
  BY <1>1, <1>2, <1>5, <1>6, ClosingSlotLockSlotMatch

(* cancel_mutual closes its slot and frees both ledgers.                     *)
LEMMA CancelMutualLockSlotMatch ==
    ASSUME TypeOK, LockSlotMatch, NEW s \in Slots, CancelMutual(s)
    PROVE  LockSlotMatch'
<1> DEFINE a == LedgerA(s)
           b == LedgerB(s)
<1>1. BothLocked(s)
  BY DEF CancelMutual, CanCancelMutual, BothLocked
<1>2. Exists(s) /\ a \in Ledgers /\ b \in Ledgers /\ a # b
  BY <1>1, LockedSlotIdentity
<1>3. /\ ledger'[a].status = "Active" /\ ledger'[b].status = "Active"
      /\ \A l \in Ledgers : l \notin {a, b} => ledger'[l] = ledger[l]
  BY <1>2, StatusChanged DEF CancelMutual, CanCancelMutual, TypeOK, LedgerStatus
<1>4. /\ pending'[a] = NoPending /\ pending'[b] = NoPending
      /\ \A l \in Ledgers : l \notin {a, b} => pending'[l] = pending[l]
  BY <1>2 DEF CancelMutual, CanCancelMutual, TypeOK
<1>5. slot'[s] = NoSlot /\ \A t \in Slots : t # s => slot'[t] = slot[t]
  BY DEF CancelMutual, CanCancelMutual, TypeOK
<1> DEFINE E == {a, b}
<1>6. /\ a \in E /\ b \in E /\ \A l \in E : l = a \/ l = b
      /\ \A l \in Ledgers :
           /\ l \in E => ledger'[l].status = "Active" /\ pending'[l] = NoPending
           /\ l \notin E => ledger'[l] = ledger[l] /\ pending'[l] = pending[l]
  BY <1>3, <1>4
<1> HIDE DEF E
<1> QED
  BY <1>1, <1>2, <1>5, <1>6, ClosingSlotLockSlotMatch

(* cancel_initiate closes its slot and frees ledger A, the only one it locks: *)
(* although the instruction does not check the slot's status, the ledger's    *)
(* PendingInitiator status implies that the slot still waits.                *)
LEMMA CancelInitiateLockSlotMatch ==
    ASSUME TypeOK, LockSlotMatch, NEW s \in Slots, CancelInitiate(s)
    PROVE  LockSlotMatch'
<1> DEFINE a == LedgerA(s)
<1>1. /\ Exists(s) /\ a \in Ledgers /\ ledger[a].status = "PendingInitiator"
  BY Addresses DEF CancelInitiate, CanCancelInitiate
<1>2. ~BothLocked(s)
  BY <1>1 DEF LockSlotMatch, LockedHoldsBoth
<1>3. /\ ledger'[a].status = "Active"
      /\ \A l \in Ledgers : l # a => ledger'[l] = ledger[l]
  BY <1>1, StatusChanged DEF CancelInitiate, CanCancelInitiate, TypeOK, LedgerStatus
<1>4. /\ pending'[a] = NoPending
      /\ \A l \in Ledgers : l # a => pending'[l] = pending[l]
  BY <1>1 DEF CancelInitiate, CanCancelInitiate, TypeOK
<1>5. slot'[s] = NoSlot /\ \A t \in Slots : t # s => slot'[t] = slot[t]
  BY DEF CancelInitiate, CanCancelInitiate, TypeOK
<1> DEFINE E == {a}
<1>6. /\ a \in E /\ \A l \in E : l = a
      /\ \A l \in Ledgers :
           /\ l \in E => ledger'[l].status = "Active" /\ pending'[l] = NoPending
           /\ l \notin E => ledger'[l] = ledger[l] /\ pending'[l] = pending[l]
  BY <1>3, <1>4
<1> HIDE DEF E
<1> QED
  BY <1>1, <1>2, <1>5, <1>6, ClosingSlotLockSlotMatch

(* create_user_ledger makes a free ledger of an absent one: no slot, waiting  *)
(* or locked, loses or gains a ledger by it.                                 *)
LEMMA CreateLedgerLockSlotMatch ==
    ASSUME TypeOK, LockSlotMatch, NEW a \in Ledgers, CreateUserLedger(a)
    PROVE  LockSlotMatch'
<1>1. /\ ledger[a].status = "Absent"
      /\ ledger'[a].status = "Active" /\ pending'[a] = NoPending
      /\ \A l \in Ledgers : l # a => ledger'[l] = ledger[l] /\ pending'[l] = pending[l]
  BY BlankAccounts DEF CreateUserLedger, TypeOK, LedgerStatus
<1>2. slot' = slot
  BY DEF CreateUserLedger
<1>3. \A t \in Slots : /\ Exists(t) => LedgerA(t) # a
                       /\ BothLocked(t) => LedgerB(t) # a
  BY <1>1, FreeLedgerInNoSlot
<1>4. WaitingMatchesA'
  BY <1>1, <1>2, <1>3, Addresses DEF LockSlotMatch, WaitingMatchesA, Waiting, Exists
<1>5. LockedHoldsBoth'
  <2>1. ASSUME NEW t \in Slots, BothLocked(t)
        PROVE  /\ ledger'[LedgerA(t)] = ledger[LedgerA(t)]
               /\ ledger'[LedgerB(t)] = ledger[LedgerB(t)]
               /\ pending'[LedgerB(t)] = pending[LedgerB(t)]
    BY <2>1, <1>1, <1>3, LockedLedgers DEF BothLocked, Exists
  <2> QED
    BY <2>1, <1>2 DEF LockSlotMatch, LockedHoldsBoth, BothLocked, LedgerB
<1>6. TermsAgree'
  BY <1>1, <1>2, <1>3, Addresses DEF LockSlotMatch, TermsAgree, Exists
<1>7. NothingStale'
  BY <1>1 DEF LockSlotMatch, NothingStale
<1>8. EveryLockHasSlot'
  BY <1>1, <1>2 DEF LockSlotMatch, EveryLockHasSlot, Waiting, BothLocked, LedgerB
<1>9. OneDealPerCounterparty'
  BY <1>2 DEF LockSlotMatch, OneDealPerCounterparty, BothLocked, LedgerB
<1> QED
  BY <1>4, <1>5, <1>6, <1>7, <1>8, <1>9 DEF LockSlotMatch

(* A step that leaves ledgers and slots alone leaves the match alone: the     *)
(* pool's creation, the proof accounts and the clock.                        *)
LEMMA UnchangedLockSlotMatch ==
    ASSUME LockSlotMatch, UNCHANGED <<ledger, pending, slot>>
    PROVE  LockSlotMatch'
BY DEF LockSlotMatch, WaitingMatchesA, LockedHoldsBoth, TermsAgree, NothingStale,
       EveryLockHasSlot, OneDealPerCounterparty, Waiting, BothLocked, Exists, LedgerB

(* The match of slots and ledgers is kept by every instruction and the clock. *)
LEMMA NextLockSlotMatch ==
    ASSUME TypeOK, LockSlotMatch, [Next]_vars
    PROVE  LockSlotMatch'
<1>1. CASE \/ InitializePool
           \/ \E n \in ProofNonces : CreateProofData(n)
           \/ \E s \in Slots : WriteChunk(s)
           \/ Tick
           \/ UNCHANGED vars
  <2>1. UNCHANGED <<ledger, pending, slot>>
    BY <1>1 DEF InitializePool, CreateProofData, WriteChunk, WriteProofData, Tick, vars
  <2> QED
    BY <2>1, UnchangedLockSlotMatch
<1> QED
  BY <1>1, CreateLedgerLockSlotMatch, InitiateLockSlotMatch, AcceptLockSlotMatch,
     ExecuteLockSlotMatch, CancelInitiateLockSlotMatch, CancelMutualLockSlotMatch
     DEF Next

-----------------------------------------------------------------------------
(* Theorems *)

(* The inductive invariant.  Neither half is inductive alone: execute_settle_b *)
(* writes to the ledger B a slot names, which is a ledger only because a      *)
(* locked slot matches its ledgers.                                          *)
IInv == TypeOK /\ LockSlotMatch

(* IInv holds in every reachable state, for all users, mints, nonces, inputs  *)
(* and windows.                                                              *)
THEOREM Inductive == Spec => []IInv
<1>1. Init => IInv
  BY InitTypeOK, InitLockSlotMatch DEF IInv
<1>2. IInv /\ [Next]_vars => IInv'
  BY NextTypeOK, NextLockSlotMatch DEF IInv
<1> QED
  BY <1>1, <1>2, PTL DEF Spec

(* Every account always holds values its Rust struct can hold.               *)
THEOREM TypeCorrect == Spec => []TypeOK
<1>1. IInv => TypeOK
  BY DEF IInv
<1> QED
  BY <1>1, Inductive, PTL

(* Slots and ledgers always agree on who is locked with whom, under which     *)
(* terms, and no ledger serves two deals.                                    *)
THEOREM LocksAndSlotsMatch == Spec => []LockSlotMatch
<1>1. IInv => LockSlotMatch
  BY DEF IInv
<1> QED
  BY <1>1, Inductive, PTL

(* A ledger's pending nonce is one a client picked, or the 0 of clear_pending. *)
LEMMA PendingNonce ==
    ASSUME IInv, NEW l \in Ledgers
    PROVE  /\ pending[l].nonce \in Nonces \cup {0}
           /\ ledger[l].status \notin {"Absent", "Active"} => pending[l].nonce \in Nonces
<1>1. ledger[l].status \in LedgerStatus
  BY DEF IInv, TypeOK, LedgerAccount
<1>2. CASE ledger[l].status \in {"Absent", "Active"}
  BY <1>2 DEF IInv, LockSlotMatch, NothingStale, NoPending
<1>3. CASE ledger[l].status \in {"PendingInitiator", "BothPending"}
  BY <1>3 DEF IInv, LockSlotMatch, EveryLockHasSlot
<1>4. CASE ledger[l].status = "PendingCounterparty"
  <2>1. PICK s \in Slots : BothLocked(s) /\ LedgerB(s) = l
    BY <1>4 DEF IInv, LockSlotMatch, EveryLockHasSlot
  <2> QED
    BY <1>4, <2>1, Addresses DEF IInv, LockSlotMatch, LockedHoldsBoth
<1> QED
  BY <1>1, <1>2, <1>3, <1>4 DEF LedgerStatus

-----------------------------------------------------------------------------
(* History, deals and refinement.                                            *)

(* The effect of execute_settle_b on the two ledgers of the slot it ends: both *)
(* become Active one version later, nothing else changes.                    *)
LEMMA ExecuteEffect ==
    ASSUME TypeOK, LockSlotMatch, NEW s \in Slots, Execute(s)
    PROVE  LET a == LedgerA(s)
               b == LedgerB(s)
           IN  /\ BothLocked(s) /\ a \in Ledgers /\ b \in Ledgers /\ a # b
               /\ ledger'[a].status = "Active" /\ ledger'[b].status = "Active"
               /\ ledger'[a].version = ledger[a].version + 1
               /\ ledger'[b].version = ledger[b].version + 1
               /\ \A l \in Ledgers : l \notin {a, b} => ledger'[l] = ledger[l]
               /\ slot'[s].status = "Absent"
               /\ \A t \in Slots : t # s => slot'[t] = slot[t]
               /\ \E k \in SettlementNonces :
                    LET r == [id |-> <<s, k>>, ledger_a |-> a, ledger_b |-> b,
                              commitment_hash |-> slot[s].commitment_hash,
                              version_a |-> ledger[a].version + 1,
                              version_b |-> ledger[b].version + 1,
                              settled_at |-> now]
                    IN  /\ \A q \in records : q.id # r.id
                        /\ records' = records \cup {r}
                        /\ ledger'[a].last_settlement_id = r.id
                        /\ ledger'[b].last_settlement_id = r.id
               /\ now' = now
<1> PICK n \in Nonces, k \in SettlementNonces,
         r_a \in Encryptions \cup {Zero}, r_b \in Encryptions \cup {Zero} :
           ExecuteSettleB(s, n, k, r_a, r_b)
  BY DEF Execute
<1> DEFINE a == LedgerA(s)
           b == LedgerB(s)
<1>1. BothLocked(s)
  BY DEF ExecuteSettleB, BothLocked
<1>2. a \in Ledgers /\ b \in Ledgers /\ a # b
  BY <1>1, LockedSlotIdentity
<1>3. /\ ledger'[a].status = "Active" /\ ledger'[b].status = "Active"
      /\ ledger'[a].version = ledger[a].version + 1
      /\ ledger'[b].version = ledger[b].version + 1
      /\ ledger'[a].last_settlement_id = <<s, k>>
      /\ ledger'[b].last_settlement_id = <<s, k>>
      /\ \A l \in Ledgers : l \notin {a, b} => ledger'[l] = ledger[l]
  BY <1>2 DEF ExecuteSettleB, TypeOK, Settled
<1>4. slot'[s].status = "Absent" /\ \A t \in Slots : t # s => slot'[t] = slot[t]
  BY BlankAccounts DEF ExecuteSettleB, TypeOK
<1>5. /\ records' = records \cup
               {[id |-> <<s, k>>, ledger_a |-> a, ledger_b |-> b,
                 commitment_hash |-> slot[s].commitment_hash,
                 version_a |-> ledger[a].version + 1,
                 version_b |-> ledger[b].version + 1, settled_at |-> now]}
      /\ \A q \in records : q.id # <<s, k>>
      /\ now' = now
  BY DEF ExecuteSettleB
<1> QED
  BY <1>1, <1>2, <1>3, <1>4, <1>5

(* The effect of cancel_mutual: both ledgers of the slot become Active again,  *)
(* at the version they had.                                                  *)
LEMMA CancelMutualEffect ==
    ASSUME TypeOK, LockSlotMatch, NEW s \in Slots, CancelMutual(s)
    PROVE  LET a == LedgerA(s)
               b == LedgerB(s)
           IN  /\ BothLocked(s) /\ a \in Ledgers /\ b \in Ledgers /\ a # b
               /\ ledger'[a] = WithStatus(ledger[a], "Active")
               /\ ledger'[b] = WithStatus(ledger[b], "Active")
               /\ \A l \in Ledgers : l \notin {a, b} => ledger'[l] = ledger[l]
               /\ slot'[s].status = "Absent"
               /\ \A t \in Slots : t # s => slot'[t] = slot[t]
               /\ now > slot[s].execute_expiry + CLOCK_TOLERANCE
               /\ records' = records /\ now' = now
<1>1. BothLocked(s)
  BY DEF CancelMutual, CanCancelMutual, BothLocked
<1>2. LedgerA(s) \in Ledgers /\ LedgerB(s) \in Ledgers /\ LedgerA(s) # LedgerB(s)
  BY <1>1, LockedSlotIdentity
<1> QED
  BY <1>1, <1>2, BlankAccounts DEF CancelMutual, CanCancelMutual, TypeOK

(* The other instructions that touch ledgers: which ledgers they touch, and    *)
(* that versions, records and settlement ids stay as they are.               *)
LEMMA OneLedgerEffect ==
    ASSUME TypeOK, NEW a \in Ledgers, NEW st \in LedgerStatus, 
           ledger' = [ledger EXCEPT ![a] = WithStatus(@, st)]
    PROVE  /\ ledger'[a].status = st /\ ledger'[a].version = ledger[a].version
           /\ ledger'[a].last_settlement_id = ledger[a].last_settlement_id
           /\ \A l \in Ledgers : l # a => ledger'[l] = ledger[l]
BY DEF TypeOK, LedgerAccount, WithStatus

-----------------------------------------------------------------------------
(* Nobody walks away *)

(* The step form of NeitherWalksAway, one case per instruction that changes a *)
(* ledger's status.                                                          *)
LEMMA StepLeavesTogether ==
    ASSUME TypeOK, LockSlotMatch, [Next]_vars, NEW l \in Ledgers
    PROVE  LeavesTogether(l)
<1> SUFFICES ASSUME ledger[l].status \in {"BothPending", "PendingCounterparty"},
                    ledger'[l].status # ledger[l].status
             PROVE  \E s \in Slots :
                      /\ BothLocked(s) /\ l \in {LedgerA(s), LedgerB(s)}
                      /\ ledger'[LedgerA(s)].status = "Active"
                      /\ ledger'[LedgerB(s)].status = "Active"
                      /\ slot'[s].status = "Absent"
                      /\ SettlesNow(s) \/ ExpiresNow(s)
  BY DEF LeavesTogether
<1>1. ASSUME NEW a \in Ledgers, CreateUserLedger(a)
      PROVE  FALSE
  BY <1>1 DEF CreateUserLedger, TypeOK
<1>2. ASSUME NEW a \in Ledgers, Initiate(a)
      PROVE  FALSE
  BY <1>2 DEF Initiate, InitiateCommit, TypeOK
<1>3. ASSUME NEW u \in Users, NEW s \in Slots, AcceptCommit(u, s)
      PROVE  FALSE
  BY <1>3 DEF AcceptCommit, CanAccept, TypeOK
<1>4. ASSUME NEW s \in Slots, CancelInitiate(s)
      PROVE  FALSE
  BY <1>4 DEF CancelInitiate, CanCancelInitiate, TypeOK
<1>5. ASSUME NEW s \in Slots, Execute(s)
      PROVE  /\ BothLocked(s) /\ l \in {LedgerA(s), LedgerB(s)}
             /\ ledger'[LedgerA(s)].status = "Active"
             /\ ledger'[LedgerB(s)].status = "Active"
             /\ slot'[s].status = "Absent" /\ SettlesNow(s)
  <2>1. l \in {LedgerA(s), LedgerB(s)}
    BY <1>5, ExecuteEffect
  <2>2. slot[s].commitment_hash = pending[LedgerA(s)].commitment
    BY <1>5, ExecuteEffect DEF LockSlotMatch, TermsAgree, BothLocked, Exists
  <2>3. SettlesNow(s)
    <3>1. PICK k \in SettlementNonces :
            LET r == [id |-> <<s, k>>, ledger_a |-> LedgerA(s), ledger_b |-> LedgerB(s),
                      commitment_hash |-> slot[s].commitment_hash,
                      version_a |-> ledger[LedgerA(s)].version + 1,
                      version_b |-> ledger[LedgerB(s)].version + 1,
                      settled_at |-> now]
            IN  /\ \A q \in records : q.id # r.id
                /\ records' = records \cup {r}
      BY <1>5, ExecuteEffect
    <3> DEFINE r == [id |-> <<s, k>>, ledger_a |-> LedgerA(s), ledger_b |-> LedgerB(s),
                     commitment_hash |-> slot[s].commitment_hash,
                     version_a |-> ledger[LedgerA(s)].version + 1,
                     version_b |-> ledger[LedgerB(s)].version + 1,
                     settled_at |-> now]
    <3>2. /\ r \in records' \ records
          /\ r.ledger_a = LedgerA(s) /\ r.ledger_b = LedgerB(s)
          /\ r.commitment_hash = slot[s].commitment_hash
          /\ r.version_a = ledger[LedgerA(s)].version + 1
          /\ r.version_b = ledger[LedgerB(s)].version + 1
      BY <3>1
    <3>3. /\ ledger'[LedgerA(s)].version = ledger[LedgerA(s)].version + 1
          /\ ledger'[LedgerB(s)].version = ledger[LedgerB(s)].version + 1
      BY <1>5, ExecuteEffect
    <3> HIDE DEF r
    <3> QED
      BY <2>2, <3>2, <3>3 DEF SettlesNow
  <2> QED
    BY <1>5, <2>1, <2>3, ExecuteEffect
<1>6. ASSUME NEW s \in Slots, CancelMutual(s)
      PROVE  /\ BothLocked(s) /\ l \in {LedgerA(s), LedgerB(s)}
             /\ ledger'[LedgerA(s)].status = "Active"
             /\ ledger'[LedgerB(s)].status = "Active"
             /\ slot'[s].status = "Absent" /\ ExpiresNow(s)
  <2>1. /\ LedgerA(s) \in Ledgers /\ LedgerB(s) \in Ledgers
        /\ ledger[LedgerA(s)] \in LedgerAccount /\ ledger[LedgerB(s)] \in LedgerAccount
    BY <1>6, CancelMutualEffect DEF TypeOK
  <2> QED
    BY <1>6, <2>1, CancelMutualEffect, StatusChanged DEF ExpiresNow, LedgerStatus
<1>7. CASE UNCHANGED ledger
  BY <1>7
<1> QED
  BY <1>1, <1>2, <1>3, <1>4, <1>5, <1>6, <1>7
     DEF Next, InitializePool, CreateProofData, WriteChunk, WriteProofData, Tick, vars

(* accept_commit.rs:83, for every number of users, mints, nonces and every    *)
(* interleaving: a locked ledger leaves its lock together with its           *)
(* counterpart, settled on both sides or, after the window, on neither.      *)
THEOREM NobodyWalksAway == Spec => NeitherWalksAway
<1>1. IInv /\ [Next]_vars => [\A l \in Ledgers : LeavesTogether(l)]_vars
  BY StepLeavesTogether DEF IInv
<1> QED
  BY <1>1, Inductive, PTL DEF Spec, NeitherWalksAway

-----------------------------------------------------------------------------
(* What the refinement of OtcDeals needs besides Inductive *)

(* A ledger that does not exist yet has taken part in no settlement.         *)
NoPastBeforeLedger ==
    \A l \in Ledgers : ledger[l].status = "Absent" => ledger[l].version = 0

DealsInv == TypeOK /\ LockSlotMatch /\ NoPastBeforeLedger

(* Every step keeps it.                                                      *)
LEMMA NextDealsInv ==
    ASSUME DealsInv, [Next]_vars
    PROVE  DealsInv'
<1> USE DEF DealsInv
<1>0. TypeOK' /\ LockSlotMatch'
  BY NextTypeOK, NextLockSlotMatch
<1>1. ASSUME NEW a \in Ledgers, CreateUserLedger(a)
      PROVE  NoPastBeforeLedger'
  <2>1. /\ ledger[a].version = 0 /\ ledger'[a].version = 0
        /\ ledger'[a].status = "Active"
        /\ \A l \in Ledgers : l # a => ledger'[l] = ledger[l]
        /\ records' = records /\ now' = now
    BY <1>1 DEF CreateUserLedger, NoPastBeforeLedger, TypeOK, EmptyLedger
  <2> QED
    BY <2>1 DEF NoPastBeforeLedger
<1>2. ASSUME NEW a \in Ledgers, Initiate(a)
      PROVE  NoPastBeforeLedger'
  <2>1. /\ ledger' = [ledger EXCEPT ![a] = WithStatus(@, "PendingInitiator")]
        /\ records' = records /\ now' = now
    BY <1>2 DEF Initiate, InitiateCommit
  <2>2. /\ ledger'[a].status = "PendingInitiator"
        /\ ledger'[a].version = ledger[a].version
        /\ ledger'[a].last_settlement_id = ledger[a].last_settlement_id
        /\ \A l \in Ledgers : l # a => ledger'[l] = ledger[l]
    BY <2>1, OneLedgerEffect DEF LedgerStatus
  <2> QED
    BY <2>1, <2>2 DEF NoPastBeforeLedger
<1>3. ASSUME NEW u \in Users, NEW s \in Slots, AcceptCommit(u, s)
      PROVE  NoPastBeforeLedger'
  <2> DEFINE a == LedgerA(s)
             b == <<u, slot[s].asset_b_mint>>
  <2>1. /\ slot[s].status = "WaitingAccept" /\ ledger[b].status = "Active"
        /\ ledger[a].status = "PendingInitiator"
        /\ records' = records /\ now' = now
        /\ ledger' = [ledger EXCEPT ![a] = WithStatus(@, "BothPending"),
                                    ![b] = WithStatus(@, "PendingCounterparty")]
    BY <1>3 DEF AcceptCommit, CanAccept
  <2>2. a \in Ledgers /\ b \in Ledgers /\ a # b
    BY <2>1, Addresses DEF LockSlotMatch, WaitingMatchesA, Waiting
  <2>3. /\ ledger'[a] = WithStatus(ledger[a], "BothPending")
        /\ ledger'[b] = WithStatus(ledger[b], "PendingCounterparty")
        /\ \A l \in Ledgers : l \notin {a, b} => ledger'[l] = ledger[l]
    BY <2>1, <2>2 DEF TypeOK
  <2>4. \A l \in Ledgers :
          /\ ledger'[l].version = ledger[l].version
          /\ ledger'[l].last_settlement_id = ledger[l].last_settlement_id
          /\ ledger'[l].status = "Absent" => ledger[l].status = "Absent"
    <3>1. ledger[a] \in LedgerAccount /\ ledger[b] \in LedgerAccount
      BY <2>2 DEF TypeOK
    <3> HIDE DEF a, b
    <3> QED
      BY <2>2, <2>3, <3>1, StatusChanged DEF LedgerStatus
  <2> QED
    BY <2>4 DEF NoPastBeforeLedger
<1>4. ASSUME NEW s \in Slots, CancelInitiate(s)
      PROVE  NoPastBeforeLedger'
  <2>1. /\ ledger' = [ledger EXCEPT ![LedgerA(s)] = WithStatus(@, "Active")]
        /\ records' = records /\ now' = now /\ LedgerA(s) \in Ledgers
    BY <1>4, Addresses DEF CancelInitiate, CanCancelInitiate
  <2> DEFINE a == LedgerA(s)
  <2>2. /\ ledger'[a].status = "Active"
        /\ ledger'[a].version = ledger[a].version
        /\ ledger'[a].last_settlement_id = ledger[a].last_settlement_id
        /\ \A l \in Ledgers : l # a => ledger'[l] = ledger[l]
    BY <2>1, OneLedgerEffect DEF LedgerStatus
  <2> HIDE DEF a
  <2> QED
    BY <2>1, <2>2 DEF NoPastBeforeLedger
<1>5. ASSUME NEW s \in Slots, CancelMutual(s)
      PROVE  NoPastBeforeLedger'
  <2>1. \A l \in Ledgers :
          /\ ledger'[l].version = ledger[l].version
          /\ ledger'[l].last_settlement_id = ledger[l].last_settlement_id
          /\ ledger'[l].status = "Absent" => ledger[l].status = "Absent"
    <3> DEFINE a == LedgerA(s)
               b == LedgerB(s)
    <3>1. /\ a \in Ledgers /\ b \in Ledgers
          /\ ledger[a].status = "BothPending" /\ ledger[b].status = "PendingCounterparty"
          /\ ledger'[a] = WithStatus(ledger[a], "Active")
          /\ ledger'[b] = WithStatus(ledger[b], "Active")
          /\ \A l \in Ledgers : l \notin {a, b} => ledger'[l] = ledger[l]
      BY <1>5, CancelMutualEffect DEF CancelMutual, CanCancelMutual
    <3>2. ledger[a] \in LedgerAccount /\ ledger[b] \in LedgerAccount
      BY <3>1 DEF TypeOK
    <3> HIDE DEF a, b
    <3> QED
      BY <3>1, <3>2, StatusChanged DEF LedgerStatus
  <2>2. records' = records /\ now' = now
    BY <1>5, CancelMutualEffect
  <2> QED
    BY <2>1, <2>2 DEF NoPastBeforeLedger
<1>6. ASSUME NEW s \in Slots, Execute(s)
      PROVE  NoPastBeforeLedger'
  <2>1. \A l \in Ledgers : ledger'[l].status = "Absent" =>
                              ledger[l].status = "Absent" /\ ledger'[l] = ledger[l]
    BY <1>6, ExecuteEffect
  <2> QED
    BY <2>1 DEF NoPastBeforeLedger
<1>7. ASSUME UNCHANGED ledger
      PROVE  NoPastBeforeLedger'
  BY <1>7 DEF NoPastBeforeLedger
<1> QED
  BY <1>0, <1>1, <1>2, <1>3, <1>4, <1>5, <1>6, <1>7
     DEF Next, InitializePool, CreateProofData, WriteChunk, WriteProofData, Tick, vars

(* It holds in every reachable state.                                        *)
LEMMA DealsInductive == Spec => []DealsInv
<1>1. Init => DealsInv
  <2>1. ASSUME Init PROVE NoPastBeforeLedger
    BY <2>1 DEF Init, NoPastBeforeLedger, EmptyLedger
  <2> QED
    BY <2>1, InitTypeOK, InitLockSlotMatch DEF DealsInv
<1>2. DealsInv /\ [Next]_vars => DealsInv'
  BY NextDealsInv
<1> QED
  BY <1>1, <1>2, PTL DEF Spec

-----------------------------------------------------------------------------
(* The program implements bilateral deals *)

(* A free ledger of the program is a free ledger of the abstraction.         *)
LEMMA FreeLedgerIsFree ==
    ASSUME TypeOK, LockSlotMatch, NEW l \in Ledgers,
           ledger[l].status \in {"Absent", "Active"}
    PROVE  Abs!Free(l)
<1>1. l \notin Offers
  BY DEF Offers
<1>2. \A d \in Deals : l # d[1] /\ l # d[2]
  BY FreeLedgerInNoSlot DEF Deals, DealOf, BothLocked, Exists
<1> QED
  BY <1>1, <1>2 DEF Abs!Free, Abs!Bound

(* The end of the locked deal of slot s takes exactly one pair out of Deals:  *)
(* no other locked slot joins the same two ledgers.                          *)
LEMMA DealEnds ==
    ASSUME TypeOK, LockSlotMatch, NEW s \in Slots, BothLocked(s),
           slot'[s].status = "Absent", \A t \in Slots : t # s => slot'[t] = slot[t]
    PROVE  DealOf(s) \in Deals /\ Deals' = Deals \ {DealOf(s)}
<1>1. \A t \in Slots : BothLocked(t) /\ DealOf(t) = DealOf(s) => t = s
  BY DEF LockSlotMatch, OneDealPerCounterparty, DealOf
<1>2. \A t \in Slots : BothLocked(t)' <=> BothLocked(t) /\ t # s
  BY DEF BothLocked
<1>3. \A t \in Slots : t # s => DealOf(t)' = DealOf(t)
  BY DEF DealOf, LedgerB
<1>4. Deals = {DealOf(t) : t \in {t \in Slots : BothLocked(t)}}
  BY DEF Deals
<1>5. Deals' = {DealOf(t)' : t \in {t \in Slots : BothLocked(t)'}}
  BY DEF Deals
<1> QED
  BY <1>1, <1>2, <1>3, <1>4, <1>5

(* A step that leaves every version alone leaves the settlement counts alone. *)
LEMMA SettlementsFollow ==
    ASSUME \A l \in Ledgers : ledger'[l].version = ledger[l].version
    PROVE  Settlements' = Settlements
BY DEF Settlements

(* A step that touches no slot and no pending status is invisible.           *)
LEMMA InvisibleStep ==
    ASSUME slot' = slot,
           \A l \in Ledgers :
              /\ ledger'[l].version = ledger[l].version
              /\ ledger'[l].status = "PendingInitiator" <=>
                    ledger[l].status = "PendingInitiator"
    PROVE  UNCHANGED <<Offers, Deals, Settlements>>
BY DEF Offers, Deals, Settlements, DealOf, BothLocked, LedgerB

(* initiate_commit is an offer of the ledger.                                *)
LEMMA InitiateIsOffer ==
    ASSUME TypeOK, LockSlotMatch, NEW a \in Ledgers, Initiate(a)
    PROVE  Abs!Offer(a)
<1> PICK n \in Nonces, u \in Users, m \in Mints, h \in Hashes \cup {Zero},
         w \in 0..(MAX_INIT_WINDOW + 1) : InitiateCommit(a, n, u, m, h, now + w)
  BY DEF Initiate
<1>1. Abs!Free(a)
  BY FreeLedgerIsFree DEF InitiateCommit
<1>2. ledger' = [ledger EXCEPT ![a] = WithStatus(@, "PendingInitiator")]
  BY DEF InitiateCommit
<1>3. /\ ledger'[a].status = "PendingInitiator"
      /\ ledger'[a].version = ledger[a].version
      /\ \A l \in Ledgers : l # a => ledger'[l] = ledger[l]
  BY <1>2, OneLedgerEffect DEF LedgerStatus
<1>4. Offers' = Offers \cup {a} /\ Settlements' = Settlements
  BY <1>3 DEF Offers, Settlements
<1>5. Deals' = Deals
  <2>1. ~BothLocked(<<a, n>>) /\ ~BothLocked(<<a, n>>)'
    BY DEF InitiateCommit, BothLocked, Exists, TypeOK
  <2>2. \A t \in Slots : t # <<a, n>> => slot'[t] = slot[t]
    BY DEF InitiateCommit, TypeOK
  <2> QED
    BY <2>1, <2>2 DEF Deals, DealOf, BothLocked, LedgerB
<1> QED
  BY <1>1, <1>4, <1>5 DEF Abs!Offer

(* accept_commit locks two ledgers in one step.                              *)
LEMMA AcceptIsLock ==
    ASSUME TypeOK, LockSlotMatch, NEW u \in Users, NEW s \in Slots,
           AcceptCommit(u, s)
    PROVE  LedgerB(s) \in Ledgers /\ Abs!Lock(LedgerA(s), LedgerB(s))
<1> DEFINE a == LedgerA(s)
           b == LedgerB(s)
<1>1. /\ slot[s].status = "WaitingAccept" /\ slot[s].counterparty = u
      /\ ledger[a].status = "PendingInitiator"
      /\ ledger[<<u, slot[s].asset_b_mint>>].status = "Active"
  BY DEF AcceptCommit, CanAccept
<1>2. /\ b = <<u, slot[s].asset_b_mint>>
      /\ a \in Ledgers /\ b \in Ledgers /\ a # b
  BY <1>1, Addresses DEF LockSlotMatch, WaitingMatchesA, Waiting, LedgerB
<1>3. /\ ledger'[a] = WithStatus(ledger[a], "BothPending")
      /\ ledger'[b] = WithStatus(ledger[b], "PendingCounterparty")
      /\ \A l \in Ledgers : l \notin {a, b} => ledger'[l] = ledger[l]
  BY <1>2 DEF AcceptCommit, CanAccept, TypeOK
<1>4. /\ slot'[s].status = "BothLocked"
      /\ slot'[s].counterparty = slot[s].counterparty
      /\ slot'[s].asset_b_mint = slot[s].asset_b_mint
      /\ \A t \in Slots : t # s => slot'[t] = slot[t]
  BY DEF AcceptCommit, CanAccept, TypeOK, SlotAccount
<1>5. a \in Offers /\ Abs!Free(b)
  BY <1>1, <1>2, FreeLedgerIsFree DEF Offers
<1> HIDE DEF a, b
<1>6. /\ ledger'[a].status = "BothPending" /\ ledger'[a].version = ledger[a].version
      /\ ledger'[b].status = "PendingCounterparty"
      /\ ledger'[b].version = ledger[b].version
  <2>1. ledger[a] \in LedgerAccount /\ ledger[b] \in LedgerAccount
    BY <1>2 DEF TypeOK
  <2> QED
    BY <1>3, <2>1, StatusChanged DEF LedgerStatus
<1>7. Offers' = Offers \ {a}
  <2>1. ledger[b].status # "PendingInitiator"
    BY <1>1, <1>2
  <2> QED
    BY <1>2, <1>3, <1>6, <2>1 DEF Offers
<1>8. Settlements' = Settlements
  BY <1>3, <1>6, SettlementsFollow
<1>9. Deals' = Deals \cup {<<a, b>>}
  <2>1. DealOf(s)' = <<a, b>>
    BY <1>4 DEF DealOf, LedgerB, a, b
  <2>2. \A t \in Slots : t # s => DealOf(t)' = DealOf(t)
    BY <1>4 DEF DealOf, LedgerB
  <2>3. \A t \in Slots : BothLocked(t)' <=> BothLocked(t) \/ t = s
    BY <1>4 DEF BothLocked
  <2>4. ~BothLocked(s)
    BY <1>1 DEF BothLocked
  <2>5. Deals = {DealOf(t) : t \in {t \in Slots : BothLocked(t)}}
    BY DEF Deals
  <2>6. Deals' = {DealOf(t)' : t \in {t \in Slots : BothLocked(t)'}}
    BY DEF Deals
  <2> QED
    BY <2>1, <2>2, <2>3, <2>4, <2>5, <2>6
<1> QED
  BY <1>2, <1>5, <1>7, <1>8, <1>9 DEF Abs!Lock, a, b

(* execute_settle_b settles a deal, on both sides.                           *)
LEMMA ExecuteIsSettle ==
    ASSUME TypeOK, LockSlotMatch, NEW s \in Slots, Execute(s)
    PROVE  LedgerB(s) \in Ledgers /\ Abs!Settle(LedgerA(s), LedgerB(s))
<1> DEFINE a == LedgerA(s)
           b == LedgerB(s)
<1>1. /\ BothLocked(s) /\ a \in Ledgers /\ b \in Ledgers /\ a # b
      /\ ledger'[a].status = "Active" /\ ledger'[b].status = "Active"
      /\ ledger'[a].version = ledger[a].version + 1
      /\ ledger'[b].version = ledger[b].version + 1
      /\ \A l \in Ledgers : l \notin {a, b} => ledger'[l] = ledger[l]
      /\ slot'[s].status = "Absent"
      /\ \A t \in Slots : t # s => slot'[t] = slot[t]
  BY ExecuteEffect
<1>2. <<a, b>> \in Deals /\ Deals' = Deals \ {<<a, b>>}
  BY <1>1, DealEnds DEF DealOf
<1>3. ledger[a].status = "BothPending" /\ ledger[b].status = "PendingCounterparty"
  BY <1>1 DEF LockSlotMatch, LockedHoldsBoth
<1> HIDE DEF a, b
<1>4. Offers' = Offers
  BY <1>1, <1>3 DEF Offers
<1>5. Settlements' = [Settlements EXCEPT ![a] = @ + 1, ![b] = @ + 1]
  BY <1>1 DEF Settlements
<1> QED
  BY <1>1, <1>2, <1>4, <1>5 DEF Abs!Settle, a, b

(* cancel_mutual ends a deal without settling it.                            *)
LEMMA CancelMutualIsExpire ==
    ASSUME TypeOK, LockSlotMatch, NEW s \in Slots, CancelMutual(s)
    PROVE  LedgerB(s) \in Ledgers /\ Abs!Expire(LedgerA(s), LedgerB(s))
<1> DEFINE a == LedgerA(s)
           b == LedgerB(s)
<1>1. /\ BothLocked(s) /\ a \in Ledgers /\ b \in Ledgers
      /\ ledger'[a] = WithStatus(ledger[a], "Active")
      /\ ledger'[b] = WithStatus(ledger[b], "Active")
      /\ \A l \in Ledgers : l \notin {a, b} => ledger'[l] = ledger[l]
      /\ slot'[s].status = "Absent"
      /\ \A t \in Slots : t # s => slot'[t] = slot[t]
  BY CancelMutualEffect
<1>2. <<a, b>> \in Deals /\ Deals' = Deals \ {<<a, b>>}
  BY <1>1, DealEnds DEF DealOf
<1>3. ledger[a].status = "BothPending" /\ ledger[b].status = "PendingCounterparty"
  BY <1>1 DEF LockSlotMatch, LockedHoldsBoth
<1> HIDE DEF a, b
<1>4. /\ ledger'[a].status = "Active" /\ ledger'[a].version = ledger[a].version
      /\ ledger'[b].status = "Active" /\ ledger'[b].version = ledger[b].version
  <2>1. ledger[a] \in LedgerAccount /\ ledger[b] \in LedgerAccount
    BY <1>1 DEF TypeOK
  <2> QED
    BY <1>1, <2>1, StatusChanged DEF LedgerStatus
<1>5. Offers' = Offers /\ Settlements' = Settlements
  BY <1>1, <1>3, <1>4 DEF Offers, Settlements
<1> QED
  BY <1>1, <1>2, <1>5 DEF Abs!Expire, a, b

(* cancel_initiate takes an offer back.                                      *)
LEMMA CancelInitiateIsRetract ==
    ASSUME TypeOK, LockSlotMatch, NEW s \in Slots, CancelInitiate(s)
    PROVE  LedgerA(s) \in Ledgers /\ Abs!Retract(LedgerA(s))
<1> DEFINE a == LedgerA(s)
<1>1. /\ ledger' = [ledger EXCEPT ![a] = WithStatus(@, "Active")]
      /\ ledger[a].status = "PendingInitiator" /\ a \in Ledgers
      /\ slot' = [slot EXCEPT ![s] = NoSlot]
  BY Addresses DEF CancelInitiate, CanCancelInitiate
<1>2. /\ ledger'[a].status = "Active" /\ ledger'[a].version = ledger[a].version
      /\ \A l \in Ledgers : l # a => ledger'[l] = ledger[l]
  BY <1>1, OneLedgerEffect DEF LedgerStatus
<1>3. a \in Offers /\ Offers' = Offers \ {a} /\ Settlements' = Settlements
  BY <1>1, <1>2 DEF Offers, Settlements
<1>4. Deals' = Deals
  <2>1. ~BothLocked(s) /\ ~BothLocked(s)'
    BY <1>1, BlankAccounts DEF LockSlotMatch, LockedHoldsBoth, BothLocked, TypeOK
  <2>2. \A t \in Slots : t # s => slot'[t] = slot[t]
    BY <1>1 DEF TypeOK
  <2> QED
    BY <2>1, <2>2 DEF Deals, DealOf, BothLocked, LedgerB
<1> QED
  BY <1>1, <1>3, <1>4 DEF Abs!Retract

(* Every instruction is a step of a deal, or invisible.                      *)
LEMMA StepRefines ==
    ASSUME DealsInv, [Next]_vars
    PROVE  [Abs!DealsNext]_(Abs!dealVars)
<1> USE DEF DealsInv
<1>1. ASSUME NEW a \in Ledgers, CreateUserLedger(a)
      PROVE  UNCHANGED <<Offers, Deals, Settlements>>
  <2>1. /\ slot' = slot
        /\ ledger[a].status = "Absent" /\ ledger[a].version = 0
        /\ ledger'[a].status = "Active" /\ ledger'[a].version = 0
        /\ \A l \in Ledgers : l # a => ledger'[l] = ledger[l]
    BY <1>1 DEF CreateUserLedger, NoPastBeforeLedger, TypeOK, EmptyLedger
  <2> QED
    BY <2>1, InvisibleStep
<1>2. ASSUME UNCHANGED <<ledger, slot>>
      PROVE  UNCHANGED <<Offers, Deals, Settlements>>
  BY <1>2, InvisibleStep
<1>3. ASSUME NEW a \in Ledgers, Initiate(a)
      PROVE  Abs!DealsNext
  BY <1>3, InitiateIsOffer DEF Abs!DealsNext
<1>4. ASSUME NEW u \in Users, NEW s \in Slots, AcceptCommit(u, s)
      PROVE  Abs!DealsNext
  BY <1>4, AcceptIsLock, Addresses DEF Abs!DealsNext
<1>5. ASSUME NEW s \in Slots, Execute(s)
      PROVE  Abs!DealsNext
  BY <1>5, ExecuteIsSettle, Addresses DEF Abs!DealsNext
<1>6. ASSUME NEW s \in Slots, CancelMutual(s)
      PROVE  Abs!DealsNext
  BY <1>6, CancelMutualIsExpire, Addresses DEF Abs!DealsNext
<1>7. ASSUME NEW s \in Slots, CancelInitiate(s)
      PROVE  Abs!DealsNext
  BY <1>7, CancelInitiateIsRetract DEF Abs!DealsNext
<1>8. CASE \/ InitializePool
           \/ \E n \in ProofNonces : CreateProofData(n)
           \/ \E s \in Slots : WriteChunk(s)
           \/ Tick
           \/ UNCHANGED vars
  <2>1. UNCHANGED <<ledger, slot>>
    BY <1>8 DEF InitializePool, CreateProofData, WriteChunk, WriteProofData, Tick, vars
  <2> QED
    BY <2>1, <1>2 DEF Abs!dealVars
<1>9. CASE \E a \in Ledgers : CreateUserLedger(a)
  BY <1>9, <1>1 DEF Abs!dealVars
<1> QED
  BY <1>3, <1>4, <1>5, <1>6, <1>7, <1>8, <1>9 DEF Next

(* README "Both parties' encrypted balances freeze simultaneously": for every *)
(* value of the constants the program implements the bilateral deals of      *)
(* OtcDeals, under the mapping of SettlementRefinement.                      *)
THEOREM ImplementsOtcDeals == Spec => RefinesOtcDeals
<1>1. Init => Abs!DealsInit
  <2> SUFFICES ASSUME Init PROVE Abs!DealsInit
    OBVIOUS
  <2>1. /\ \A s \in Slots : slot[s].status = "Absent"
        /\ \A l \in Ledgers : ledger[l].status = "Absent" /\ ledger[l].version = 0
    BY BlankAccounts DEF Init, LedgerStatus, EmptyLedger
  <2> QED
    BY <2>1 DEF Abs!DealsInit, Offers, Deals, Settlements, BothLocked
<1>2. DealsInv /\ [Next]_vars => [Abs!DealsNext]_(Abs!dealVars)
  BY StepRefines
<1>3. Spec => []DealsInv
  BY DealsInductive
<1> QED
  BY <1>1, <1>2, <1>3, PTL DEF Spec, RefinesOtcDeals, Abs!DealsSpec
=============================================================================
