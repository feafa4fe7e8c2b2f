------------------------- MODULE KeyLifecycleProofs -------------------------
(***************************************************************************)
(* The key registry under any number of operators' commands: at most one   *)
(* active key, no gap left by a rotation, revoked keys stay revoked and    *)
(* overlaps keep their end.                                                *)
(*                                                                         *)
(* None of it is inductive. A COMMIT applies writes that were computed two *)
(* statements ago, so the argument is about what an open transaction may   *)
(* rely on: the rows it has written are locked and stay as they were read  *)
(* (WritesAreLocked), and between the index check and COMMIT nobody else   *)
(* can be past that check (OneActivation), so no key becomes active        *)
(* meanwhile (ActivationIsSafe).                                           *)
(***************************************************************************)
EXTENDS KeyLifecycle, TLAPS

\* A command that has created its key and not ended.
Working == {"created"} \cup InTxn

\* A command's key is its own, and nobody but it has touched it, except to revoke it.
KidsAreOwn ==
    \A c \in Commands : pc[c] \in Working =>
        /\ kid[c] \in Kids
        /\ keys[kid[c]].state \in {"pending", "revoked"}
        /\ \A d \in Commands : pc[d] \in Working /\ kid[c] = kid[d] => c = d

\* A revoke works on a row that is there, and has no open transaction.
RevokesAreReal ==
    \A c \in Commands : pc[c] = "revoking" => kid[c] \in Kids /\ keys[kid[c]] # NoKey

\* What activate found is a key that has been active, and not the command's own.
CurrentsAreReal ==
    \A c \in Commands :
        /\ pc[c] \in {"idle", "create", "created", "looking"} => current[c] = None
        /\ pc[c] \in {"found", "retired", "activated"} /\ current[c] # None =>
              /\ current[c] # kid[c]
              /\ keys[current[c]].state \in {"active", "retiring", "revoked"}
        /\ pc[c] = "retired" => current[c] # None

\* An open transaction has written the key that it retires and then its own; both
\* satisfy the CHECKs, were not revoked, and are locked.
WritesAreLocked ==
    \A c \in Commands, k \in Kids : writes[c][k] # None =>
        /\ pc[c] \in {"retired", "activated"}
        /\ \/ k = current[c] /\ writes[c][k].state = "retiring"
           \/ k = kid[c] /\ writes[c][k].state = "active" /\ pc[c] = "activated"
        /\ Allowed(writes[c][k])
        /\ keys[k] # NoKey /\ keys[k].state # "revoked"
        /\ \A d \in Commands : writes[d][k] # None => c = d

\* One command at a time is between the check of the partial index and COMMIT ...
OneActivation ==
    \A c, d \in Commands : pc[c] = "activated" /\ pc[d] = "activated" => c = d

\* ... and when it commits, its key is the active one.
ActivationIsSafe ==
    \A c \in Commands : pc[c] = "activated" =>
        /\ writes[c][kid[c]] # None /\ writes[c][kid[c]].state = "active"
        /\ \A k \in Active : writes[c][k] # None

KeyInv ==
    /\ TypeOK
    /\ OneActive
    /\ KidsAreOwn
    /\ RevokesAreReal
    /\ CurrentsAreReal
    /\ WritesAreLocked
    /\ OneActivation
    /\ ActivationIsSafe

-----------------------------------------------------------------------------

\* What the steps below need of the constants and labels.
USE KeyAssumption

\* None is no key.
LEMMA NoneIsNoKid == None \notin Kids
    BY DEF Kids

\* The registry starts empty or with one active key.
LEMMA KeyInit == Init => KeyInv
<1> SUFFICES ASSUME Init PROVE KeyInv
    OBVIOUS
<1> USE DEF Init
<1> NoKey \in Key /\ FirstKey \in Key
    BY DEF NoKey, FirstKey, Key, States
<1>1. TypeOK
    BY DEF TypeOK, PC, Nothing
<1>2. OneActive
  <2>1. \A k \in Active : keys[k] = FirstKey /\ k = 1
      BY DEF Active, NoKey
  <2>2. \A k \in Kids : keys[k] = NoKey \/ keys[k] = FirstKey
      OBVIOUS
  <2>3. Allowed(FirstKey)
      BY DEF Allowed, FirstKey
  <2> QED
      BY <2>1, <2>2, <2>3 DEF OneActive
<1>3. \A c \in Commands, k \in Kids : writes[c][k] = None
    BY DEF Nothing
<1>4. KidsAreOwn /\ RevokesAreReal /\ CurrentsAreReal /\ OneActivation /\ ActivationIsSafe
    BY DEF KidsAreOwn, RevokesAreReal, CurrentsAreReal, OneActivation, ActivationIsSafe,
           Working, InTxn
<1>5. WritesAreLocked
    BY <1>3 DEF WritesAreLocked
<1> QED
    BY <1>1, <1>2, <1>4, <1>5 DEF KeyInv

\* init's look at the registry, and rotate's start.
LEMMA BeginKeeps == ASSUME KeyInv, NEW c \in Commands, Begin(c) PROVE KeyInv'
<1> USE DEF Begin, Goto, local
<1>1. TypeOK'
    BY DEF KeyInv, TypeOK, PC, Ended
<1>2. OneActive'
    BY DEF KeyInv, OneActive, Active
<1>3. KidsAreOwn' /\ RevokesAreReal' /\ CurrentsAreReal' /\ OneActivation'
    BY DEF KeyInv, TypeOK, KidsAreOwn, RevokesAreReal, CurrentsAreReal, OneActivation,
           Working, InTxn
<1>4. WritesAreLocked' /\ ActivationIsSafe'
    BY DEF KeyInv, TypeOK, WritesAreLocked, ActivationIsSafe, Active
<1> QED
    BY <1>1, <1>2, <1>3, <1>4 DEF KeyInv

\* A new row: nobody's key, nobody's lock, not active.
LEMMA CreateKeeps == ASSUME KeyInv, NEW c \in Commands, createPending(c) PROVE KeyInv'
<1> DEFINE row == [state |-> "pending", material |-> TRUE, notAfter |-> None]
<1> PICK k \in Kids :
        /\ keys[k] = NoKey
        /\ keys' = [keys EXCEPT ![k] = row]
        /\ kid' = [kid EXCEPT ![c] = k]
    BY DEF createPending
<1> USE DEF createPending, Goto, KeyInv
<1>0. row \in Key /\ row # NoKey /\ Allowed(row) /\ row.state = "pending"
    BY DEF Key, States, NoKey, Allowed
<1> HIDE DEF row
<1>1. TypeOK'
    BY <1>0 DEF TypeOK, PC
<1>2. OneActive' /\ Active' = Active
  <2>1. keys' \in [Kids -> Key] /\ keys'[k] = row /\ \A j \in Kids \ {k} : keys'[j] = keys[j]
      BY <1>0 DEF TypeOK
  <2>2. Active' = Active
      BY <1>0, <2>1 DEF Active, NoKey
  <2> QED
      BY <1>0, <2>1, <2>2 DEF OneActive
<1>3. KidsAreOwn'
  <2>1. \A d \in Commands : pc[d] \in Working => kid[d] # k /\ keys'[kid[d]] = keys[kid[d]]
      BY DEF TypeOK, KidsAreOwn, NoKey
  <2>2. keys'[k] = row /\ kid'[c] = k /\ \A d \in Commands \ {c} : kid'[d] = kid[d]
      BY DEF TypeOK
  <2>3. c \notin {d \in Commands : pc[d] \in Working} /\ \A d \in Commands \ {c} : pc'[d] = pc[d]
      BY DEF TypeOK, Working, InTxn
  <2> QED
      BY <1>0, <2>1, <2>2, <2>3 DEF KidsAreOwn
<1>4. RevokesAreReal' /\ CurrentsAreReal' /\ OneActivation'
  <2>1. \A j \in Kids : (keys'[j] # NoKey /\ keys'[j] = row) \/ keys'[j] = keys[j]
      BY <1>0 DEF TypeOK
  <2>2. \A j \in Kids : keys[j] # NoKey => keys'[j] = keys[j]
      BY DEF TypeOK
  <2>3. /\ pc'[c] = "created"
        /\ \A d \in Commands \ {c} : pc'[d] = pc[d] /\ kid'[d] = kid[d]
      BY DEF TypeOK
  <2>4. RevokesAreReal' /\ OneActivation'
      BY <2>1, <2>3 DEF TypeOK, RevokesAreReal, OneActivation
  <2>5. CurrentsAreReal'
    <3>1. \A j \in Kids : keys[j].state \in {"active", "retiring", "revoked"} => keys'[j] = keys[j]
        BY <2>2 DEF NoKey
    <3> QED
        BY <2>3, <3>1 DEF TypeOK, CurrentsAreReal
  <2> QED
      BY <2>4, <2>5
<1>5. WritesAreLocked'
    BY <1>0 DEF TypeOK, WritesAreLocked
<1>6. ActivationIsSafe'
    BY <1>2 DEF TypeOK, ActivationIsSafe
<1> QED
    BY <1>1, <1>2, <1>3, <1>4, <1>5, <1>6

\* activate's date.
LEMMA BeginActivateKeeps ==
    ASSUME KeyInv, NEW c \in Commands, BeginActivate(c) PROVE KeyInv'
<1> USE DEF BeginActivate, Goto, KeyInv
<1>1. TypeOK'
    BY DEF TypeOK, PC, InTxn
<1>2. OneActive' /\ Active' = Active
    BY DEF OneActive, Active
<1>3. KidsAreOwn' /\ RevokesAreReal' /\ CurrentsAreReal' /\ OneActivation'
    BY DEF TypeOK, KidsAreOwn, RevokesAreReal, CurrentsAreReal, OneActivation, Working, InTxn
<1>4. WritesAreLocked' /\ ActivationIsSafe'
    BY <1>2 DEF TypeOK, WritesAreLocked, ActivationIsSafe
<1> QED
    BY <1>1, <1>2, <1>3, <1>4

\* What findFirst returns is active, so it is not the command's own key.
LEMMA FindActiveKeeps == ASSUME KeyInv, NEW c \in Commands, FindActive(c) PROVE KeyInv'
<1> USE DEF FindActive, Goto, KeyInv
<1>1. TypeOK'
    BY DEF TypeOK, PC, InTxn, Active
<1>2. OneActive' /\ Active' = Active
    BY DEF OneActive, Active
<1>3. KidsAreOwn' /\ RevokesAreReal' /\ OneActivation'
    BY DEF TypeOK, KidsAreOwn, RevokesAreReal, OneActivation, Working, InTxn
<1>4. \A k \in Active : k # kid[c]
    BY DEF KidsAreOwn, Working, InTxn, Active
<1>5. CurrentsAreReal'
    BY <1>4 DEF TypeOK, CurrentsAreReal, Active
<1>6. WritesAreLocked' /\ ActivationIsSafe'
    BY <1>2 DEF TypeOK, WritesAreLocked, ActivationIsSafe
<1> QED
    BY <1>1, <1>2, <1>3, <1>4, <1>5, <1>6

\* A transaction that fails gives up its writes; nothing committed changes.
LEMMA FailKeeps ==
    ASSUME KeyInv, NEW c \in Commands, Fail(c), UNCHANGED <<keys, clock, local>>
    PROVE  KeyInv'
<1> USE DEF Fail, Goto, Rollback, KeyInv, local
<1>1. /\ \A j \in Kids : writes'[c][j] = None
      /\ \A d \in Commands \ {c} : writes'[d] = writes[d]
    BY DEF TypeOK, Nothing
<1>2. TypeOK'
    BY DEF TypeOK, PC, Ended, Nothing
<1>3. OneActive' /\ Active' = Active
    BY DEF OneActive, Active
<1>4. KidsAreOwn' /\ RevokesAreReal' /\ CurrentsAreReal' /\ OneActivation'
    BY DEF TypeOK, KidsAreOwn, RevokesAreReal, CurrentsAreReal, OneActivation, Working, InTxn
<1>5. WritesAreLocked' /\ ActivationIsSafe'
    BY <1>1, <1>3 DEF TypeOK, WritesAreLocked, ActivationIsSafe
<1> QED
    BY <1>2, <1>3, <1>4, <1>5

\* The old key's row is rewritten and locked, if it is not revoked by now.
LEMMA RetireKeeps == ASSUME KeyInv, NEW c \in Commands, RetireCurrent(c) PROVE KeyInv'
<1> USE DEF RetireCurrent, Goto, KeyInv, local
<1> DEFINE k == current[c]
<1>1. k \in Kids /\ k # kid[c] /\ keys[k] # NoKey /\ keys[k] \in Key
    BY DEF TypeOK, CurrentsAreReal, NoKey
<1>2. OneActive' /\ Active' = Active
    BY DEF OneActive, Active
<1>3. CASE Allowed(Retired(c)) /\ Write(c, k, Retired(c)) /\ Goto(c, "retired")
  <2> USE <1>3 DEF Write
  <2>1. Retired(c) \in Key /\ Retired(c).state = "retiring"
      BY <1>1 DEF Retired, Key, States, TypeOK
  <2>2. keys[k].state # "revoked"
      BY <1>1 DEF Retired, Allowed, OneActive, Key
  <2>3. writes[c][k] = None /\ \A d \in Commands \ {c} : writes[d][k] = None
      BY <1>1 DEF Locked, WritesAreLocked, TypeOK
  <2>4. /\ writes'[c][k] = Retired(c)
        /\ \A d \in Commands, j \in Kids : d # c \/ j # k => writes'[d][j] = writes[d][j]
      BY <1>1 DEF TypeOK
  <2>5. TypeOK'
      BY <1>1, <2>1 DEF TypeOK, PC, InTxn
  <2>6. KidsAreOwn' /\ RevokesAreReal' /\ CurrentsAreReal' /\ OneActivation'
      BY DEF TypeOK, KidsAreOwn, RevokesAreReal, CurrentsAreReal, OneActivation, Working, InTxn
  <2>7. WritesAreLocked'
      BY <1>1, <2>1, <2>2, <2>3, <2>4 DEF TypeOK, WritesAreLocked, Key
  <2>8. ActivationIsSafe'
      BY <1>2, <2>4 DEF TypeOK, ActivationIsSafe, KidsAreOwn, Working, InTxn, Active
  <2> QED
      BY <1>2, <2>5, <2>6, <2>7, <2>8
<1>4. CASE Fail(c)
    BY <1>4, FailKeeps
<1> QED
    BY <1>3, <1>4

\* The new key's row is rewritten and locked. Whoever else is past the index check
\* keeps the index busy; and no row but the command's own writes is active.
LEMMA ActivateKeeps == ASSUME KeyInv, NEW c \in Commands, ActivateNew(c) PROVE KeyInv'
<1> USE DEF ActivateNew, KeyInv, local
<1> DEFINE k == kid[c]
<1>1. pc[c] \in {"found", "retired"} /\ pc[c] \in Working
    BY DEF Working, InTxn
<1>2. k \in Kids /\ keys[k].state \in {"pending", "revoked"} /\ keys[k] \in Key /\ keys[k] # NoKey
    BY <1>1 DEF TypeOK, KidsAreOwn, NoKey
<1>3. OneActive' /\ Active' = Active
    BY DEF OneActive, Active
<1>4. CASE Allowed(Activated(c)) /\ ~IndexTaken(c) /\ Write(c, k, Activated(c)) /\ Goto(c, "activated")
  <2> USE <1>4 DEF Write, Goto
  <2>1. Activated(c) \in Key /\ Activated(c).state = "active" /\ Activated(c) # None
      BY <1>2 DEF Activated, Key, States
  <2>2. keys[k].state # "revoked"
      BY <1>2 DEF Activated, Allowed, OneActive, Key
  <2>3. writes[c][k] = None /\ \A d \in Commands \ {c} : writes[d][k] = None
      BY <1>1, <1>2 DEF Locked, WritesAreLocked, CurrentsAreReal, TypeOK
  <2>4. /\ writes'[c][k] = Activated(c)
        /\ \A d \in Commands, j \in Kids : d # c \/ j # k => writes'[d][j] = writes[d][j]
      BY <1>2 DEF TypeOK
  <2>5. \A d \in Commands : pc[d] # "activated"
      BY <1>1 DEF IndexBusy, ActivationIsSafe, KidsAreOwn, Working, InTxn
  <2>6. TypeOK'
      BY <1>2, <2>1 DEF TypeOK, PC, InTxn
  <2>7. KidsAreOwn' /\ RevokesAreReal' /\ CurrentsAreReal'
      BY <1>1 DEF TypeOK, KidsAreOwn, RevokesAreReal, CurrentsAreReal, Working, InTxn
  <2>8. WritesAreLocked'
      BY <1>1, <1>2, <2>1, <2>2, <2>3, <2>4 DEF TypeOK, WritesAreLocked
  <2>9. OneActivation'
      BY <2>5 DEF TypeOK, OneActivation
  <2>10. ActivationIsSafe'
      BY <1>3, <2>1, <2>4, <2>5 DEF TypeOK, ActivationIsSafe, IndexTaken, Active
  <2> QED
      BY <1>3, <2>6, <2>7, <2>8, <2>9, <2>10
<1>5. CASE Fail(c)
    BY <1>5, FailKeeps
<1> QED
    BY <1>4, <1>5

\* What COMMIT does to the registry: the command's key is the only active one, and
\* every other row but the one it retires stays.
LEMMA CommitEffect ==
    ASSUME KeyInv, NEW c \in Commands, CommitActivate(c)
    PROVE  /\ kid[c] \in Kids /\ Active' = {kid[c]}
           /\ \A k \in Kids :
                 \/ writes[c][k] = None /\ keys'[k] = keys[k]
                 \/ /\ writes[c][k] # None /\ keys'[k] = writes[c][k] /\ keys'[k] \in Key
                    /\ keys'[k] # NoKey /\ Allowed(keys'[k])
<1> USE DEF CommitActivate, KeyInv
<1>1. \A k \in Kids :
                 \/ writes[c][k] = None /\ keys'[k] = keys[k]
                 \/ /\ writes[c][k] # None /\ keys'[k] = writes[c][k] /\ keys'[k] \in Key
                    /\ keys'[k] # NoKey /\ Allowed(keys'[k])
    BY DEF TypeOK, WritesAreLocked, NoKey
<1>2. kid[c] \in Kids /\ writes[c][kid[c]] # None /\ writes[c][kid[c]].state = "active"
    BY DEF ActivationIsSafe, KidsAreOwn, Working, InTxn
<1>3. ASSUME NEW k \in Kids, keys'[k].state = "active" PROVE k = kid[c]
    BY <1>1, <1>3 DEF ActivationIsSafe, WritesAreLocked, Active
<1> QED
    BY <1>1, <1>2, <1>3 DEF Active

\* COMMIT: its rows were locked, so nobody else's writes or keys are disturbed.
LEMMA CommitKeeps == ASSUME KeyInv, NEW c \in Commands, CommitActivate(c) PROVE KeyInv'
<1> USE DEF CommitActivate, Goto, Rollback, KeyInv, local
<1>1. /\ \A j \in Kids : writes'[c][j] = None
      /\ \A d \in Commands \ {c} : writes'[d] = writes[d]
    BY DEF TypeOK, Nothing
<1>2. /\ pc'[c] = "done"
      /\ \A d \in Commands \ {c} : pc'[d] = pc[d] /\ pc[d] # "activated"
    BY DEF TypeOK, OneActivation
<1>3. \A k \in Kids : keys'[k] = keys[k] \/ (keys'[k] # NoKey /\ keys'[k] \in Key)
    BY CommitEffect
<1>4. TypeOK'
    BY <1>3 DEF TypeOK, PC, Ended, Nothing
<1>5. OneActive'
    BY CommitEffect DEF OneActive
<1>6. KidsAreOwn'
  <2> SUFFICES ASSUME NEW d \in Commands, pc'[d] \in Working
               PROVE  /\ kid[d] \in Kids
                      /\ keys'[kid[d]].state \in {"pending", "revoked"}
                      /\ \A e \in Commands : pc'[e] \in Working /\ kid[d] = kid[e] => d = e
      BY DEF KidsAreOwn
  <2>1. d # c /\ pc[d] = pc'[d] /\ pc[d] \in Working /\ pc[c] \in Working
      BY <1>2 DEF Working, InTxn
  <2>2. kid[d] \in Kids /\ kid[d] # kid[c] /\ keys[kid[d]].state \in {"pending", "revoked"}
      BY <2>1 DEF KidsAreOwn
  <2>3. writes[c][kid[d]] = None
    <3>1. current[c] = kid[d] => keys[kid[d]].state \in {"active", "retiring", "revoked"}
        BY <2>2, NoneIsNoKid DEF CurrentsAreReal
    <3> QED
        BY <2>2, <3>1 DEF WritesAreLocked
  <2> QED
      BY <2>1, <2>2, <2>3, <1>2, CommitEffect DEF KidsAreOwn, Working, InTxn
<1>7. RevokesAreReal' /\ OneActivation' /\ ActivationIsSafe'
    BY <1>2, <1>3 DEF TypeOK, RevokesAreReal, OneActivation, ActivationIsSafe
<1>8. CurrentsAreReal'
    BY <1>2, CommitEffect DEF TypeOK, CurrentsAreReal, WritesAreLocked
<1>9. WritesAreLocked'
  <2>1. ASSUME NEW d \in Commands, NEW k \in Kids, writes'[d][k] # None
        PROVE  d # c /\ writes[d][k] # None /\ keys'[k] = keys[k]
      BY <1>1, <2>1, CommitEffect DEF WritesAreLocked
  <2> QED
      BY <1>1, <1>2, <2>1 DEF WritesAreLocked
<1> QED
    BY <1>4, <1>5, <1>6, <1>7, <1>8, <1>9

\* revoke's read of the registry.
LEMMA ReadForRevokeKeeps ==
    ASSUME KeyInv, NEW c \in Commands, ReadForRevoke(c) PROVE KeyInv'
<1> PICK k \in Kids : /\ keys[k] # NoKey
                     /\ kid' = [kid EXCEPT ![c] = k]
                     /\ Goto(c, CASE keys[k].state = "revoked" -> "leftAlone"
                                  [] keys[k].state = "active" -> "refused"
                                  [] OTHER -> "revoking")
    BY DEF ReadForRevoke
<1> USE DEF ReadForRevoke, Goto, KeyInv
<1>1. /\ pc'[c] \in {"leftAlone", "refused", "revoking"} /\ kid'[c] = k
      /\ \A d \in Commands \ {c} : pc'[d] = pc[d] /\ kid'[d] = kid[d]
    BY DEF TypeOK
<1>2. TypeOK'
    BY DEF TypeOK, PC, Ended
<1>3. OneActive' /\ Active' = Active
    BY DEF OneActive, Active
<1>4. KidsAreOwn' /\ RevokesAreReal' /\ CurrentsAreReal' /\ OneActivation'
    BY <1>1 DEF KidsAreOwn, RevokesAreReal, CurrentsAreReal, OneActivation, Working, InTxn
<1>5. WritesAreLocked' /\ ActivationIsSafe'
    BY <1>1, <1>3 DEF WritesAreLocked, ActivationIsSafe
<1> QED
    BY <1>2, <1>3, <1>4, <1>5

\* What revoke does to the registry: a row that no transaction has written loses
\* its material; if it was revoked already nothing changes.
LEMMA RevokeEffect ==
    ASSUME KeyInv, NEW c \in Commands, revoke(c)
    PROVE  /\ kid[c] \in Kids /\ keys[kid[c]] # NoKey
           /\ \A d \in Commands : writes[d][kid[c]] = None
           /\ keys'[kid[c]] \in Key /\ keys'[kid[c]].state = "revoked"
           /\ ~keys'[kid[c]].material
           /\ keys[kid[c]].state = "revoked" => keys'[kid[c]] = keys[kid[c]]
           /\ \A k \in Kids \ {kid[c]} : keys'[k] = keys[k]
<1> USE DEF revoke, KeyInv
<1>1. kid[c] \in Kids /\ keys[kid[c]] # NoKey /\ keys[kid[c]] \in Key
    BY DEF RevokesAreReal, TypeOK
<1>2. \A d \in Commands : writes[d][kid[c]] = None
    BY <1>1 DEF Locked, WritesAreLocked
<1>3. keys[kid[c]].state = "revoked" => keys[kid[c]].material = FALSE
    BY <1>1 DEF OneActive, Allowed, Key
<1> DEFINE old == keys[kid[c]]
           new == [old EXCEPT !.state = "revoked", !.material = FALSE]
<1>4. keys' = [keys EXCEPT ![kid[c]] = new]
    BY <1>1 DEF TypeOK
<1>5. new \in Key /\ new.state = "revoked" /\ ~new.material
    BY <1>1 DEF Key, States
<1>6. old.state = "revoked" => new = old
    BY <1>1, <1>3 DEF Key
<1> QED
    BY <1>1, <1>2, <1>4, <1>5, <1>6 DEF TypeOK

\* A revocation makes no key active and touches no open transaction's rows.
LEMMA RevokeKeeps == ASSUME KeyInv, NEW c \in Commands, revoke(c) PROVE KeyInv'
<1> DEFINE k == kid[c]
<1> USE DEF KeyInv
<1>1. /\ pc' = [pc EXCEPT ![c] = "done"] /\ pc'[c] = "done"
      /\ \A d \in Commands \ {c} : pc'[d] = pc[d]
      /\ UNCHANGED <<writes, clock, kind, kid, current, notAfter>>
    BY DEF revoke, Goto, local, TypeOK
<1>2. /\ k \in Kids
      /\ \A d \in Commands : writes[d][k] = None
      /\ keys'[k] \in Key /\ keys'[k].state = "revoked" /\ ~keys'[k].material
      /\ \A j \in Kids \ {k} : keys'[j] = keys[j]
    BY RevokeEffect
<1>3. keys' \in [Kids -> Key]
    BY <1>2 DEF revoke, TypeOK
<1>4. Active' \subseteq Active
    BY <1>2 DEF Active
<1>5. TypeOK'
    BY <1>1, <1>3 DEF TypeOK, PC, Ended
<1>6. OneActive'
  <2>1. Allowed(keys'[k])
      BY <1>2 DEF Allowed
  <2> QED
      BY <1>2, <1>4, <2>1 DEF OneActive
<1>7. KidsAreOwn'
  <2>1. \A j \in Kids : keys'[j].state \in {keys[j].state, "revoked"}
      BY <1>2
  <2>2. \A d \in Commands : pc'[d] \in Working => pc[d] \in Working
      BY <1>1 DEF Working, InTxn
  <2> QED
      BY <1>1, <2>1, <2>2 DEF KidsAreOwn
<1>8. RevokesAreReal' /\ OneActivation'
  <2>1. \A j \in Kids : keys[j] # NoKey => keys'[j] # NoKey
      BY <1>2 DEF NoKey
  <2> QED
      BY <1>1, <2>1 DEF RevokesAreReal, OneActivation
<1>9. CurrentsAreReal'
  <2>1. \A j \in Kids : keys'[j].state \in {keys[j].state, "revoked"}
      BY <1>2
  <2> SUFFICES ASSUME NEW d \in Commands, d # c
               PROVE  /\ pc[d] \in {"idle", "create", "created", "looking"} => current[d] = None
                      /\ pc[d] \in {"found", "retired", "activated"} /\ current[d] # None =>
                            /\ current[d] # kid[d]
                            /\ keys'[current[d]].state \in {"active", "retiring", "revoked"}
                      /\ pc[d] = "retired" => current[d] # None
      BY <1>1 DEF CurrentsAreReal
  <2>2. current[d] \in Kids \cup {None}
      BY DEF TypeOK
  <2> QED
      BY <2>1, <2>2 DEF CurrentsAreReal
<1>10. WritesAreLocked' /\ ActivationIsSafe'
  <2>1. ASSUME NEW d \in Commands, NEW j \in Kids, writes'[d][j] # None
        PROVE  d # c /\ pc'[d] = pc[d] /\ keys'[j] = keys[j] /\ writes[d][j] # None
    <3>1. pc[c] = "revoking"
        BY DEF revoke
    <3> QED
        BY <1>1, <1>2, <2>1, <3>1 DEF WritesAreLocked
  <2>2. WritesAreLocked'
      BY <1>1, <2>1 DEF WritesAreLocked
  <2>3. ActivationIsSafe'
      BY <1>1, <1>4 DEF ActivationIsSafe
  <2> QED
      BY <2>2, <2>3
<1> QED
    BY <1>5, <1>6, <1>7, <1>8, <1>9, <1>10

\* The inductive step, one case per action.
LEMMA KeyNext == KeyInv /\ [Next]_vars => KeyInv'
<1> SUFFICES ASSUME KeyInv, [Next]_vars PROVE KeyInv'
    OBVIOUS
<1>1. ASSUME NEW c \in Commands, Step(c) \/ Stop(c) PROVE KeyInv'
  <2>1. CASE Begin(c)
      BY <2>1, BeginKeeps
  <2>2. CASE createPending(c)
      BY <2>2, CreateKeeps
  <2>3. CASE BeginActivate(c)
      BY <2>3, BeginActivateKeeps
  <2>4. CASE FindActive(c)
      BY <2>4, FindActiveKeeps
  <2>5. CASE RetireCurrent(c)
      BY <2>5, RetireKeeps
  <2>6. CASE ActivateNew(c)
      BY <2>6, ActivateKeeps
  <2>7. CASE CommitActivate(c)
      BY <2>7, CommitKeeps
  <2>8. CASE ReadForRevoke(c)
      BY <2>8, ReadForRevokeKeeps
  <2>9. CASE revoke(c)
      BY <2>9, RevokeKeeps
  <2>10. CASE Stop(c)
      BY <2>10, FailKeeps DEF Stop
  <2> QED
      BY <1>1, <2>1, <2>2, <2>3, <2>4, <2>5, <2>6, <2>7, <2>8, <2>9, <2>10 DEF Step
<1>2. CASE Tick
  <2>1. TypeOK'
      BY <1>2 DEF KeyInv, TypeOK, Tick, local
  <2> QED
      BY <1>2, <2>1 DEF Tick, local, KeyInv, OneActive, KidsAreOwn, RevokesAreReal, CurrentsAreReal,
                        WritesAreLocked, OneActivation, ActivationIsSafe, Active
<1>3. CASE UNCHANGED vars
    BY <1>3 DEF vars, KeyInv, TypeOK, OneActive, KidsAreOwn, RevokesAreReal, CurrentsAreReal,
                WritesAreLocked, OneActivation, ActivationIsSafe, Active
<1> QED
    BY <1>1, <1>2, <1>3 DEF Next

\* Every reachable registry satisfies the inductive invariant.
THEOREM KeyInvariant == Spec => []KeyInv
    BY KeyInit, KeyNext, PTL DEF Spec

\* Every variable keeps its type.
THEOREM KeyTypes == Spec => []TypeOK
<1>1. KeyInv => TypeOK
    BY DEF KeyInv
<1> QED
    BY <1>1, KeyInvariant, PTL

\* At most one key is active and every row passes its CHECKs, for any number of
\* concurrent inits, rotations and revocations that may each fail anywhere.
THEOREM OneActiveKey == Spec => []OneActive
<1>1. KeyInv => OneActive
    BY DEF KeyInv
<1> QED
    BY <1>1, KeyInvariant, PTL

-----------------------------------------------------------------------------
(* What a step may never do to the registry.                               *)

\* Only COMMIT and revoke change rows that are there.
LEMMA RowsChange ==
    ASSUME KeyInv, [Next]_vars
    PROVE  \/ \A k \in Kids : keys[k] # NoKey => keys'[k] = keys[k]
           \/ \E c \in Commands : CommitActivate(c) \/ revoke(c)
<1>1. ASSUME NEW c \in Commands, Step(c) \/ Stop(c)
      PROVE  \/ \A k \in Kids : keys[k] # NoKey => keys'[k] = keys[k]
             \/ CommitActivate(c) \/ revoke(c)
  <2>1. CASE createPending(c)
      BY <2>1 DEF createPending, KeyInv, TypeOK
  <2>2. CASE UNCHANGED keys
      BY <2>2
  <2> QED
      BY <1>1, <2>1, <2>2 DEF Step, Stop, Begin, BeginActivate, FindActive, RetireCurrent,
                              ActivateNew, ReadForRevoke
<1> QED
    BY <1>1 DEF Next, Tick, vars

\* A rotation never leaves the registry without an active key: only a revocation
\* that read its key before a rotation activated it can.
THEOREM RotationLeavesNoGap == Spec => NoRotationGap
<1>1. ASSUME KeyInv, [Next]_vars, Active # {}, Active' = {}
      PROVE  \E c \in Commands : pc[c] = "revoking" /\ pc'[c] = "done"
  <2>1. CASE \A k \in Kids : keys[k] # NoKey => keys'[k] = keys[k]
      BY <1>1, <2>1 DEF Active, NoKey
  <2>2. ASSUME NEW c \in Commands, CommitActivate(c) PROVE FALSE
      BY <1>1, <2>2, CommitEffect
  <2>3. ASSUME NEW c \in Commands, revoke(c) PROVE pc[c] = "revoking" /\ pc'[c] = "done"
      BY <1>1, <2>3 DEF revoke, Goto, KeyInv, TypeOK
  <2> QED
      BY <1>1, <2>1, <2>2, <2>3, RowsChange
<1> QED
    BY <1>1, KeyInvariant, PTL DEF Spec, NoRotationGap

\* A revoked key's row never changes again, whatever open transactions read of it.
THEOREM RevocationIsFinal == Spec => RevokedIsFinal
<1>1. ASSUME KeyInv, [Next]_vars, NEW k \in Kids, keys[k].state = "revoked"
      PROVE  keys'[k] = keys[k]
  <2>1. keys[k] # NoKey
      BY <1>1 DEF NoKey
  <2>2. ASSUME NEW c \in Commands, CommitActivate(c) PROVE keys'[k] = keys[k]
      BY <1>1, <2>2, CommitEffect DEF KeyInv, WritesAreLocked
  <2>3. ASSUME NEW c \in Commands, revoke(c) PROVE keys'[k] = keys[k]
      BY <1>1, <2>3, RevokeEffect
  <2> QED
      BY <1>1, <2>1, <2>2, <2>3, RowsChange
<1>2. ASSUME KeyInv, [Next]_vars
      PROVE  \A k \in Kids : keys[k].state = "revoked" => keys'[k] = keys[k]
    BY <1>1, <1>2
<1> QED
    BY <1>2, KeyInvariant, PTL DEF Spec, RevokedIsFinal

\* While there is an active key no rotation moves the end of an overlap: to commit,
\* it must have written the active key, and it writes none but that one and its own.
THEOREM OverlapsAreFixed == Spec => OverlapIsFixed
<1>1. ASSUME KeyInv, [Next]_vars, Active # {}, NEW k \in Kids, keys[k].state = "retiring"
      PROVE  keys'[k] = keys[k] \/ keys'[k].state = "revoked"
  <2>1. keys[k] # NoKey
      BY <1>1 DEF NoKey
  <2>2. ASSUME NEW c \in Commands, CommitActivate(c) PROVE keys'[k] = keys[k]
    <3>1. PICK a \in Kids : keys[a].state = "active" /\ writes[c][a] # None
        BY <1>1, <2>2 DEF KeyInv, ActivationIsSafe, Active, CommitActivate
    <3>2. keys[kid[c]].state \in {"pending", "revoked"}
        BY <1>1, <2>2 DEF KeyInv, KidsAreOwn, CommitActivate, Working, InTxn
    <3>3. a = current[c]
        BY <1>1, <3>1, <3>2 DEF KeyInv, WritesAreLocked
    <3>4. writes[c][k] = None
        BY <1>1, <3>1, <3>2, <3>3 DEF KeyInv, WritesAreLocked
    <3> QED
        BY <1>1, <2>2, <3>4, CommitEffect
  <2>3. ASSUME NEW c \in Commands, revoke(c) PROVE keys'[k] = keys[k] \/ keys'[k].state = "revoked"
      BY <1>1, <2>3, RevokeEffect
  <2> QED
      BY <1>1, <2>1, <2>2, <2>3, RowsChange
<1>2. ASSUME KeyInv, [Next]_vars, Active # {}
      PROVE  \A k \in Kids : keys[k].state = "retiring" => \/ keys'[k] = keys[k]
                                                           \/ keys'[k].state = "revoked"
    BY <1>1, <1>2
<1> QED
    BY <1>2, KeyInvariant, PTL DEF Spec, OverlapIsFixed
=============================================================================
