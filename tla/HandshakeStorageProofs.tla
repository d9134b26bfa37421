----------------------- MODULE HandshakeStorageProofs -----------------------
(***************************************************************************)
(* Proofs about many handshakes on shared databases, for any number of     *)
(* sessions, profiles, databases and crashes.                              *)
(***************************************************************************)
EXTENDS HandshakeStorage, FiniteSetTheorems, TLAPS

\* The stages at which a client is inside its locked section.
LockedStage == {"delete", "delete_row", "start", "wait", "store", "drop", "drop_row"}

RowStage == {"delete_row", "drop_row"}

\* Whoever is in its locked section holds the lock of its database, and a
\* session that has not begun has sent nothing.
Locked ==
    \A s \in Session :
        /\ client[s] \in LockedStage => lock[ClientDb[s]] = s
        /\ server[s] = "start" => lock[ServerDb[s]] = s
        /\ client[s] = "idle" => server[s] = "read" /\ wire[s] = "none"

\* A row names a session of its own profile.
OwnRow == \A p \in Profile : rows[p] # NoSession => ProfileOf[rows[p]] = p

\* What a client in its locked section, or after it, can count on: between the
\* two statements of a delete the row has lost its group; from the delete to
\* the INSERT there is no row; the group is there before the INSERT; a session
\* whose group is still there is the one in its row.
Progress ==
    \A s \in Session :
        /\ client[s] \in RowStage => Row(s) \notin groups[ClientDb[s]]
        /\ client[s] \in {"start", "wait", "store"} => Row(s) = NoSession
        /\ client[s] = "store" => s \in groups[ClientDb[s]]
        /\ client[s] \in {"established", "drop", "drop_row"} /\ s \in groups[ClientDb[s]]
             => Row(s) = s

\* The groups and the rows that no locked section is about to put right.
LeftGroups == {s \in OrphanGroups : client[s] # "store"}

LeftRows == {p \in BrokenRows :
                \A t \in Session : ProfileOf[t] = p => client[t] \notin RowStage}

Traces == Cardinality(LeftGroups) + Cardinality(LeftRows) <= crashes

\* The inductive invariant.
StorageInv == TypeOK /\ Locked /\ OwnRow /\ Progress /\ NoConflict /\ Traces

-----------------------------------------------------------------------------
\* A client that fails gives up its lock and its socket.
LEMMA FailType ==
    ASSUME TypeOK, NEW s \in Session, NEW e \in ErrorKinds, Fail(s, e)
    PROVE  /\ client' \in [Session -> {"idle", "lock", "delete", "delete_row", "start", "wait",
                                       "store", "established", "drop", "drop_row", "failed",
                                       "dead"}]
           /\ wire' \in [Session -> {"none", "ClientHello", "ServerHello", "closed"}]
           /\ error' \in [Session -> ErrorKinds]
           /\ lock' \in [Database -> Session \union {NoSession}]
BY StorageAssumption DEF TypeOK, Fail, Release

\* Every step keeps the types.
LEMMA TypeStep ==
    ASSUME TypeOK, [Next]_vars
    PROVE  TypeOK'
<1> USE StorageAssumption DEF TypeOK, ErrorKinds
<1>1. ASSUME NEW s \in Session, Begin(s) PROVE TypeOK'
  BY <1>1 DEF Begin, At
<1>2. ASSUME NEW s \in Session, ClientLock(s) PROVE TypeOK'
  BY <1>2 DEF ClientLock, At, Free
<1>3. ASSUME NEW s \in Session, DeleteGroup(s) PROVE TypeOK'
  <2>1. UNCHANGED <<rows, server, crashes>> /\ client[s] \in DeletesFrom
    BY <1>3 DEF DeleteGroup
  <2>2. ASSUME client' = [client EXCEPT ![s] = AfterDelete(@)],
               lock' = LockAfterDelete(s, client[s]), UNCHANGED <<groups, wire, error>>
        PROVE  TypeOK'
    BY <2>1, <2>2 DEF DeletesFrom, AfterDelete, LockAfterDelete, Release
  <2>3. ASSUME groups' = [groups EXCEPT ![ClientDb[s]] = @ \ {Row(s)}],
               client' = [client EXCEPT ![s] = AtRow(@)], UNCHANGED <<lock, wire, error>>
        PROVE  TypeOK'
    BY <2>1, <2>3 DEF DeletesFrom, AtRow
  <2>4. ASSUME Fail(s, "InvalidSessionId"), UNCHANGED groups PROVE TypeOK'
    BY <2>1, <2>4, FailType
  <2>5. ASSUME client' = [client EXCEPT ![s] = AfterDelete(@)],
               error' = [error EXCEPT ![s] = "InvalidSessionId"],
               lock' = Release(ClientDb[s], s), UNCHANGED <<groups, wire>>
        PROVE  TypeOK'
    BY <2>1, <2>5 DEF DeletesFrom, AfterDelete, Release
  <2> QED
    BY <1>3, <2>2, <2>3, <2>4, <2>5 DEF DeleteGroup
<1>4. ASSUME NEW s \in Session, DeleteRow(s) PROVE TypeOK'
  BY <1>4 DEF DeleteRow, At, DeletesFrom, AfterDelete, AtRow, LockAfterDelete, Release
<1>5. ASSUME NEW s \in Session, Start(s) PROVE TypeOK'
  BY <1>5 DEF Start, At
<1>6. ASSUME NEW s \in Session, ReceiveServerHello(s) PROVE TypeOK'
  <2>1. ASSUME client' = [client EXCEPT ![s] = "store"],
               groups' = [groups EXCEPT ![ClientDb[s]] = @ \union {s}],
               UNCHANGED <<lock, wire, error>>
        PROVE  TypeOK'
    BY <1>6, <2>1 DEF ReceiveServerHello
  <2>2. ASSUME Fail(s, "UnexpectedVerifyingKey"), UNCHANGED groups PROVE TypeOK'
    BY <1>6, <2>2, FailType DEF ReceiveServerHello
  <2> QED
    BY <1>6, <2>1, <2>2 DEF ReceiveServerHello
<1>7. ASSUME NEW s \in Session, NoServerHello(s) PROVE TypeOK'
  BY <1>7 DEF NoServerHello, Fail, Release
<1>8. ASSUME NEW s \in Session, Store(s) PROVE TypeOK'
  <2>1. ASSUME Fail(s, "Persistence"), UNCHANGED rows PROVE TypeOK'
    BY <1>8, <2>1, FailType DEF Store
  <2>2. ASSUME rows' = [rows EXCEPT ![ProfileOf[s]] = s],
               client' = [client EXCEPT ![s] = "established"],
               lock' = Release(ClientDb[s], s), UNCHANGED <<wire, error>>
        PROVE  TypeOK'
    BY <1>8, <2>2 DEF Store, Release
  <2> QED
    BY <1>8, <2>1, <2>2 DEF Store
<1>9. ASSUME NEW s \in Session, Handle(s) PROVE TypeOK'
  BY <1>9 DEF Handle
<1>10. ASSUME NEW s \in Session, Drop(s) PROVE TypeOK'
  BY <1>10 DEF Drop, At, Free
<1>11. ASSUME NEW s \in Session, Cancel(s) PROVE TypeOK'
  BY <1>11 DEF Cancel, Fail, Release
<1>12. ASSUME NEW s \in Session, ServerLock(s) PROVE TypeOK'
  BY <1>12 DEF ServerLock, Free
<1>13. ASSUME NEW s \in Session, NoClientHello(s) PROVE TypeOK'
  BY <1>13 DEF NoClientHello
<1>14. ASSUME NEW s \in Session, ServerStart(s) PROVE TypeOK'
  <2>1. groups' = groups \/ groups' = [groups EXCEPT ![ServerDb[s]] = @ \union {s}]
    BY <1>14 DEF ServerStart
  <2>2. groups' \in [Database -> SUBSET Session]
    BY <2>1
  <2>3. /\ server' \in [Session -> {"read", "start", "established", "dropped", "failed", "dead"}]
        /\ wire' \in [Session -> {"none", "ClientHello", "ServerHello", "closed"}]
        /\ lock' \in [Database -> Session \union {NoSession}]
        /\ UNCHANGED <<rows, client, error, crashes>>
    BY <1>14 DEF ServerStart, Release
  <2> QED
    BY <2>2, <2>3
<1>15. ASSUME NEW s \in Session, ServerDrop(s) PROVE TypeOK'
  BY <1>15 DEF ServerDrop, Free
<1>16. ASSUME NEW d \in Database, Crash(d) PROVE TypeOK'
  BY <1>16 DEF Crash
<1>17. ASSUME UNCHANGED vars PROVE TypeOK'
  BY <1>17 DEF vars
<1> QED
  BY <1>1, <1>2, <1>3, <1>4, <1>5, <1>6, <1>7, <1>8, <1>9,
     <1>10, <1>11, <1>12, <1>13, <1>14, <1>15, <1>16, <1>17 DEF Next, ClientStep

\* Locks are taken and given up with the sections that they guard.
LEMMA LockedStep ==
    ASSUME TypeOK, Locked, [Next]_vars
    PROVE  Locked'
<1> USE StorageAssumption DEF TypeOK, Locked, LockedStage
<1>1. ASSUME NEW s \in Session, Begin(s) PROVE Locked'
  BY <1>1 DEF Begin, At
<1>2. ASSUME NEW s \in Session, ClientLock(s) PROVE Locked'
  BY <1>2 DEF ClientLock, At, Free
<1>3. ASSUME NEW s \in Session, DeleteGroup(s) PROVE Locked'
  BY <1>3 DEF DeleteGroup, DeletesFrom, AfterDelete, AtRow, LockAfterDelete, Release, Fail, Row
<1>4. ASSUME NEW s \in Session, DeleteRow(s) PROVE Locked'
  BY <1>4 DEF DeleteRow, At, DeletesFrom, AfterDelete, AtRow, LockAfterDelete, Release
<1>5. ASSUME NEW s \in Session, Start(s) PROVE Locked'
  BY <1>5 DEF Start, At
<1>6. ASSUME NEW s \in Session, ReceiveServerHello(s) PROVE Locked'
  BY <1>6 DEF ReceiveServerHello, Fail, Release
<1>7. ASSUME NEW s \in Session, NoServerHello(s) PROVE Locked'
  BY <1>7 DEF NoServerHello, Fail, Release
<1>8. ASSUME NEW s \in Session, Store(s) PROVE Locked'
  BY <1>8 DEF Store, Fail, Release, Row
<1>9. ASSUME NEW s \in Session, Handle(s) PROVE Locked'
  BY <1>9 DEF Handle, Free, Fail, Release
<1>10. ASSUME NEW s \in Session, Drop(s) PROVE Locked'
  BY <1>10 DEF Drop, At, Free
<1>11. ASSUME NEW s \in Session, Cancel(s) PROVE Locked'
  BY <1>11 DEF Cancel, Fail, Release
<1>12. ASSUME NEW s \in Session, ServerLock(s) PROVE Locked'
  BY <1>12 DEF ServerLock, Free
<1>13. ASSUME NEW s \in Session, NoClientHello(s) PROVE Locked'
  BY <1>13 DEF NoClientHello
<1>14. ASSUME NEW s \in Session, ServerStart(s) PROVE Locked'
  BY <1>14 DEF ServerStart, Release
<1>15. ASSUME NEW s \in Session, ServerDrop(s) PROVE Locked'
  BY <1>15 DEF ServerDrop, Free
<1>16. ASSUME NEW d \in Database, Crash(d) PROVE Locked'
  BY <1>16 DEF Crash
<1>17. ASSUME UNCHANGED vars PROVE Locked'
  BY <1>17 DEF vars
<1> QED
  BY <1>1, <1>2, <1>3, <1>4, <1>5, <1>6, <1>7, <1>8, <1>9,
     <1>10, <1>11, <1>12, <1>13, <1>14, <1>15, <1>16, <1>17 DEF Next, ClientStep

\* Only a session writes itself into the row of its profile.
LEMMA OwnRowStep ==
    ASSUME TypeOK, OwnRow, [Next]_vars
    PROVE  OwnRow'
<1> USE StorageAssumption DEF TypeOK, OwnRow
<1>1. ASSUME NEW s \in Session, Begin(s) PROVE OwnRow'
  BY <1>1 DEF Begin, At
<1>2. ASSUME NEW s \in Session, ClientLock(s) PROVE OwnRow'
  BY <1>2 DEF ClientLock, At, Free
<1>3. ASSUME NEW s \in Session, DeleteGroup(s) PROVE OwnRow'
  BY <1>3 DEF DeleteGroup, DeletesFrom, AfterDelete, AtRow, LockAfterDelete, Release, Fail, Row
<1>4. ASSUME NEW s \in Session, DeleteRow(s) PROVE OwnRow'
  BY <1>4 DEF DeleteRow, At, DeletesFrom, AfterDelete, AtRow, LockAfterDelete, Release
<1>5. ASSUME NEW s \in Session, Start(s) PROVE OwnRow'
  BY <1>5 DEF Start, At
<1>6. ASSUME NEW s \in Session, ReceiveServerHello(s) PROVE OwnRow'
  BY <1>6 DEF ReceiveServerHello, Fail, Release
<1>7. ASSUME NEW s \in Session, NoServerHello(s) PROVE OwnRow'
  BY <1>7 DEF NoServerHello, Fail, Release
<1>8. ASSUME NEW s \in Session, Store(s) PROVE OwnRow'
  BY <1>8 DEF Store, Fail, Release, Row
<1>9. ASSUME NEW s \in Session, Handle(s) PROVE OwnRow'
  BY <1>9 DEF Handle, Free, Fail, Release
<1>10. ASSUME NEW s \in Session, Drop(s) PROVE OwnRow'
  BY <1>10 DEF Drop, At, Free
<1>11. ASSUME NEW s \in Session, Cancel(s) PROVE OwnRow'
  BY <1>11 DEF Cancel, Fail, Release
<1>12. ASSUME NEW s \in Session, ServerLock(s) PROVE OwnRow'
  BY <1>12 DEF ServerLock, Free
<1>13. ASSUME NEW s \in Session, NoClientHello(s) PROVE OwnRow'
  BY <1>13 DEF NoClientHello
<1>14. ASSUME NEW s \in Session, ServerStart(s) PROVE OwnRow'
  BY <1>14 DEF ServerStart, Release
<1>15. ASSUME NEW s \in Session, ServerDrop(s) PROVE OwnRow'
  BY <1>15 DEF ServerDrop, Free
<1>16. ASSUME NEW d \in Database, Crash(d) PROVE OwnRow'
  BY <1>16 DEF Crash
<1>17. ASSUME UNCHANGED vars PROVE OwnRow'
  BY <1>17 DEF vars
<1> QED
  BY <1>1, <1>2, <1>3, <1>4, <1>5, <1>6, <1>7, <1>8, <1>9,
     <1>10, <1>11, <1>12, <1>13, <1>14, <1>15, <1>16, <1>17 DEF Next, ClientStep

\* What a client in its section counts on is not disturbed by the others.
LEMMA ProgressStep ==
    ASSUME TypeOK, Locked, OwnRow, Progress, [Next]_vars
    PROVE  Progress'
<1> USE StorageAssumption DEF TypeOK, Locked, LockedStage, OwnRow, Progress, RowStage, Row
<1>1. ASSUME NEW s \in Session, Begin(s) PROVE Progress'
  BY <1>1 DEF Begin, At
<1>2. ASSUME NEW s \in Session, ClientLock(s) PROVE Progress'
  BY <1>2 DEF ClientLock, At, Free
<1>3. ASSUME NEW s \in Session, DeleteGroup(s) PROVE Progress'
  BY <1>3 DEF DeleteGroup, DeletesFrom, AfterDelete, AtRow, LockAfterDelete, Release, Fail, Row
<1>4. ASSUME NEW s \in Session, DeleteRow(s) PROVE Progress'
  BY <1>4 DEF DeleteRow, At, DeletesFrom, AfterDelete, AtRow, LockAfterDelete, Release
<1>5. ASSUME NEW s \in Session, Start(s) PROVE Progress'
  BY <1>5 DEF Start, At
<1>6. ASSUME NEW s \in Session, ReceiveServerHello(s) PROVE Progress'
  BY <1>6 DEF ReceiveServerHello, Fail, Release
<1>7. ASSUME NEW s \in Session, NoServerHello(s) PROVE Progress'
  BY <1>7 DEF NoServerHello, Fail, Release
<1>8. ASSUME NEW s \in Session, Store(s) PROVE Progress'
  BY <1>8 DEF Store, Fail, Release, Row
<1>9. ASSUME NEW s \in Session, Handle(s) PROVE Progress'
  BY <1>9 DEF Handle, Free, Fail, Release
<1>10. ASSUME NEW s \in Session, Drop(s) PROVE Progress'
  BY <1>10 DEF Drop, At, Free
<1>11. ASSUME NEW s \in Session, Cancel(s) PROVE Progress'
  BY <1>11 DEF Cancel, Fail, Release
<1>12. ASSUME NEW s \in Session, ServerLock(s) PROVE Progress'
  BY <1>12 DEF ServerLock, Free
<1>13. ASSUME NEW s \in Session, NoClientHello(s) PROVE Progress'
  BY <1>13 DEF NoClientHello
<1>14. ASSUME NEW s \in Session, ServerStart(s) PROVE Progress'
  BY <1>14 DEF ServerStart, Release
<1>15. ASSUME NEW s \in Session, ServerDrop(s) PROVE Progress'
  BY <1>15 DEF ServerDrop, Free
<1>16. ASSUME NEW d \in Database, Crash(d) PROVE Progress'
  BY <1>16 DEF Crash
<1>17. ASSUME UNCHANGED vars PROVE Progress'
  BY <1>17 DEF vars
<1> QED
  BY <1>1, <1>2, <1>3, <1>4, <1>5, <1>6, <1>7, <1>8, <1>9,
     <1>10, <1>11, <1>12, <1>13, <1>14, <1>15, <1>16, <1>17 DEF Next, ClientStep

\* The INSERT meets no row.
LEMMA ConflictStep ==
    ASSUME TypeOK, Progress, NoConflict, [Next]_vars
    PROVE  NoConflict'
<1> USE StorageAssumption DEF TypeOK, Progress, NoConflict, Row
<1>1. ASSUME NEW s \in Session, Begin(s) PROVE NoConflict'
  BY <1>1 DEF Begin, At
<1>2. ASSUME NEW s \in Session, ClientLock(s) PROVE NoConflict'
  BY <1>2 DEF ClientLock, At, Free
<1>3. ASSUME NEW s \in Session, DeleteGroup(s) PROVE NoConflict'
  BY <1>3 DEF DeleteGroup, DeletesFrom, AfterDelete, AtRow, LockAfterDelete, Release, Fail, Row
<1>4. ASSUME NEW s \in Session, DeleteRow(s) PROVE NoConflict'
  BY <1>4 DEF DeleteRow, At, DeletesFrom, AfterDelete, AtRow, LockAfterDelete, Release
<1>5. ASSUME NEW s \in Session, Start(s) PROVE NoConflict'
  BY <1>5 DEF Start, At
<1>6. ASSUME NEW s \in Session, ReceiveServerHello(s) PROVE NoConflict'
  BY <1>6 DEF ReceiveServerHello, Fail, Release
<1>7. ASSUME NEW s \in Session, NoServerHello(s) PROVE NoConflict'
  BY <1>7 DEF NoServerHello, Fail, Release
<1>8. ASSUME NEW s \in Session, Store(s) PROVE NoConflict'
  BY <1>8 DEF Store, Fail, Release, Row
<1>9. ASSUME NEW s \in Session, Handle(s) PROVE NoConflict'
  BY <1>9 DEF Handle, Free, Fail, Release
<1>10. ASSUME NEW s \in Session, Drop(s) PROVE NoConflict'
  BY <1>10 DEF Drop, At, Free
<1>11. ASSUME NEW s \in Session, Cancel(s) PROVE NoConflict'
  BY <1>11 DEF Cancel, Fail, Release
<1>12. ASSUME NEW s \in Session, ServerLock(s) PROVE NoConflict'
  BY <1>12 DEF ServerLock, Free
<1>13. ASSUME NEW s \in Session, NoClientHello(s) PROVE NoConflict'
  BY <1>13 DEF NoClientHello
<1>14. ASSUME NEW s \in Session, ServerStart(s) PROVE NoConflict'
  BY <1>14 DEF ServerStart, Release
<1>15. ASSUME NEW s \in Session, ServerDrop(s) PROVE NoConflict'
  BY <1>15 DEF ServerDrop, Free
<1>16. ASSUME NEW d \in Database, Crash(d) PROVE NoConflict'
  BY <1>16 DEF Crash
<1>17. ASSUME UNCHANGED vars PROVE NoConflict'
  BY <1>17 DEF vars
<1> QED
  BY <1>1, <1>2, <1>3, <1>4, <1>5, <1>6, <1>7, <1>8, <1>9,
     <1>10, <1>11, <1>12, <1>13, <1>14, <1>15, <1>16, <1>17 DEF Next, ClientStep

\* Between them, the groups and rows that are left grow by one at most.
LEMMA OneMore ==
    ASSUME NEW S, NEW S1, NEW x, IsFiniteSet(S), S1 \subseteq S \union {x}
    PROVE  /\ IsFiniteSet(S1) /\ Cardinality(S1) \in Nat /\ Cardinality(S) \in Nat
           /\ Cardinality(S1) <= Cardinality(S) + 1
<1>1. /\ IsFiniteSet(S \union {x})
      /\ Cardinality(S \union {x}) = IF x \in S THEN Cardinality(S) ELSE Cardinality(S) + 1
  BY FS_AddElement
<1>2. IsFiniteSet(S1) /\ Cardinality(S1) <= Cardinality(S \union {x})
  BY <1>1, FS_Subset
<1> QED
  BY <1>1, <1>2, FS_CardinalityType

LEMMA NoMore ==
    ASSUME NEW S, NEW S1, IsFiniteSet(S), S1 \subseteq S
    PROVE  /\ IsFiniteSet(S1) /\ Cardinality(S1) \in Nat /\ Cardinality(S) \in Nat
           /\ Cardinality(S1) <= Cardinality(S)
BY FS_Subset, FS_CardinalityType

LEMMA LeftFinite == IsFiniteSet(LeftGroups) /\ IsFiniteSet(LeftRows)
<1>1. LeftGroups \subseteq Session /\ LeftRows \subseteq Profile
  BY DEF LeftGroups, LeftRows, OrphanGroups, BrokenRows
<1> QED
  BY <1>1, StorageAssumption, FS_Subset

\* A step other than a crash leaves nothing new behind.
LEMMA NothingNew ==
    ASSUME StorageInv, NEW s \in Session,
           \/ Begin(s) \/ ClientLock(s) \/ ClientStep(s) \/ Handle(s) \/ Drop(s) \/ Cancel(s)
           \/ ServerLock(s) \/ NoClientHello(s) \/ ServerStart(s) \/ ServerDrop(s)
    PROVE  LeftGroups' \subseteq LeftGroups /\ LeftRows' \subseteq LeftRows
<1> USE StorageAssumption DEF StorageInv, TypeOK, Locked, LockedStage, OwnRow, Progress,
        LeftGroups, LeftRows, OrphanGroups, BrokenRows, RowStage, Row
<1>1. ASSUME Begin(s) PROVE LeftGroups' \subseteq LeftGroups /\ LeftRows' \subseteq LeftRows
  BY <1>1 DEF Begin, At
<1>2. ASSUME ClientLock(s) PROVE LeftGroups' \subseteq LeftGroups /\ LeftRows' \subseteq LeftRows
  BY <1>2 DEF ClientLock, At, Free
<1>3. ASSUME DeleteGroup(s) PROVE LeftGroups' \subseteq LeftGroups /\ LeftRows' \subseteq LeftRows
  BY <1>3 DEF DeleteGroup, DeletesFrom, AfterDelete, AtRow, Fail
<1>4. ASSUME DeleteRow(s) PROVE LeftGroups' \subseteq LeftGroups /\ LeftRows' \subseteq LeftRows
  BY <1>4 DEF DeleteRow, At, DeletesFrom, AfterDelete, AtRow
<1>5. ASSUME Start(s) PROVE LeftGroups' \subseteq LeftGroups /\ LeftRows' \subseteq LeftRows
  BY <1>5 DEF Start, At
<1>6. ASSUME ReceiveServerHello(s) PROVE LeftGroups' \subseteq LeftGroups /\ LeftRows' \subseteq LeftRows
  BY <1>6 DEF ReceiveServerHello, Fail
<1>7. ASSUME NoServerHello(s) PROVE LeftGroups' \subseteq LeftGroups /\ LeftRows' \subseteq LeftRows
  BY <1>7 DEF NoServerHello, Fail
<1>8. ASSUME Store(s) PROVE LeftGroups' \subseteq LeftGroups /\ LeftRows' \subseteq LeftRows
  BY <1>8 DEF Store, Fail
<1>9. ASSUME Handle(s) PROVE LeftGroups' \subseteq LeftGroups /\ LeftRows' \subseteq LeftRows
  BY <1>9 DEF Handle, Free, Fail
<1>10. ASSUME Drop(s) PROVE LeftGroups' \subseteq LeftGroups /\ LeftRows' \subseteq LeftRows
  BY <1>10 DEF Drop, At, Free
<1>11. ASSUME Cancel(s) PROVE LeftGroups' \subseteq LeftGroups /\ LeftRows' \subseteq LeftRows
  BY <1>11 DEF Cancel, Fail
<1>12. ASSUME ServerLock(s) PROVE LeftGroups' \subseteq LeftGroups /\ LeftRows' \subseteq LeftRows
  BY <1>12 DEF ServerLock, Free
<1>13. ASSUME NoClientHello(s) PROVE LeftGroups' \subseteq LeftGroups /\ LeftRows' \subseteq LeftRows
  BY <1>13 DEF NoClientHello
<1>14. ASSUME ServerStart(s) PROVE LeftGroups' \subseteq LeftGroups /\ LeftRows' \subseteq LeftRows
  BY <1>14 DEF ServerStart
<1>15. ASSUME ServerDrop(s) PROVE LeftGroups' \subseteq LeftGroups /\ LeftRows' \subseteq LeftRows
  BY <1>15 DEF ServerDrop, Free
<1> QED
  BY <1>1, <1>2, <1>3, <1>4, <1>5, <1>6, <1>7, <1>8, <1>9,
     <1>10, <1>11, <1>12, <1>13, <1>14, <1>15 DEF ClientStep

\* A crash leaves what the one holder of the database's lock was about to put
\* right: its own group, or the row of its profile.
LEMMA OneNew ==
    ASSUME StorageInv, NEW d \in Database, Crash(d)
    PROVE  \/ /\ LeftGroups' \subseteq LeftGroups \union {lock[d]}
              /\ LeftRows' \subseteq LeftRows
           \/ /\ LeftGroups' \subseteq LeftGroups
              /\ LeftRows' \subseteq LeftRows \union {ProfileOf[lock[d]]}
<1> USE StorageAssumption DEF StorageInv, TypeOK, Locked, LockedStage, OwnRow, Progress,
        LeftGroups, LeftRows, OrphanGroups, BrokenRows, RowStage, Row
<1> DEFINE h == lock[d]
<1>1. /\ OrphanGroups' = OrphanGroups /\ BrokenRows' = BrokenRows
      /\ \A s \in Session : client'[s] = IF ClientDb[s] = d /\ client[s] # "idle" THEN "dead"
                                         ELSE client[s]
  BY DEF Crash
<1>2. \A s \in Session : client[s] \in LockedStage /\ client'[s] # client[s] => s = h
  BY <1>1
<1>3. LeftGroups' \subseteq LeftGroups \union {h}
  BY <1>1, <1>2
<1>4. LeftRows' \subseteq LeftRows \union {ProfileOf[h]}
  BY <1>1, <1>2
<1>5. CASE client[h] = "store" /\ h \in Session
  <2>1. LeftRows' \subseteq LeftRows
    BY <1>1, <1>2, <1>5
  <2> QED
    BY <1>3, <2>1
<1>6. CASE ~(client[h] = "store" /\ h \in Session)
  <2>1. LeftGroups' \subseteq LeftGroups
    BY <1>1, <1>2, <1>6
  <2> QED
    BY <1>4, <2>1
<1> QED
  BY <1>5, <1>6

LEMMA TracesStep == StorageInv /\ [Next]_vars => Traces'
<1> SUFFICES ASSUME StorageInv, [Next]_vars PROVE Traces'
  OBVIOUS
<1>1. /\ Cardinality(LeftGroups) \in Nat /\ Cardinality(LeftRows) \in Nat /\ crashes \in Nat
      /\ Cardinality(LeftGroups) + Cardinality(LeftRows) <= crashes
  BY LeftFinite, FS_CardinalityType, StorageAssumption DEF StorageInv, TypeOK, Traces
<1>2. ASSUME LeftGroups' \subseteq LeftGroups, LeftRows' \subseteq LeftRows, crashes' = crashes
      PROVE  Traces'
  BY <1>1, <1>2, LeftFinite, NoMore DEF Traces
<1>3. ASSUME NEW s \in Session,
             \/ Begin(s) \/ ClientLock(s) \/ ClientStep(s) \/ Handle(s) \/ Drop(s) \/ Cancel(s)
             \/ ServerLock(s) \/ NoClientHello(s) \/ ServerStart(s) \/ ServerDrop(s)
      PROVE  Traces'
  <2>1. crashes' = crashes
    BY <1>3 DEF Begin, ClientLock, ClientStep, Handle, Drop, Cancel, ServerLock, NoClientHello,
         ServerStart, ServerDrop, DeleteGroup, DeleteRow, Start, ReceiveServerHello,
         NoServerHello, Store
  <2> QED
    BY <1>2, <1>3, <2>1, NothingNew
<1>4. ASSUME NEW d \in Database, Crash(d) PROVE Traces'
  <2>1. crashes' = crashes + 1
    BY <1>4 DEF Crash
  <2>2. ASSUME LeftGroups' \subseteq LeftGroups \union {lock[d]}, LeftRows' \subseteq LeftRows
        PROVE  Traces'
    <3>1. /\ Cardinality(LeftGroups') \in Nat
          /\ Cardinality(LeftGroups') <= Cardinality(LeftGroups) + 1
      BY <2>2, LeftFinite, OneMore
    <3>2. Cardinality(LeftRows') \in Nat /\ Cardinality(LeftRows') <= Cardinality(LeftRows)
      BY <2>2, LeftFinite, NoMore
    <3> QED
      BY <1>1, <2>1, <3>1, <3>2 DEF Traces
  <2>3. ASSUME LeftGroups' \subseteq LeftGroups,
               LeftRows' \subseteq LeftRows \union {ProfileOf[lock[d]]}
        PROVE  Traces'
    <3>1. /\ Cardinality(LeftRows') \in Nat
          /\ Cardinality(LeftRows') <= Cardinality(LeftRows) + 1
      BY <2>3, LeftFinite, OneMore
    <3>2. Cardinality(LeftGroups') \in Nat /\ Cardinality(LeftGroups') <= Cardinality(LeftGroups)
      BY <2>3, LeftFinite, NoMore
    <3> QED
      BY <1>1, <2>1, <3>1, <3>2 DEF Traces
  <2> QED
    BY <1>4, <2>2, <2>3, OneNew
<1>5. ASSUME UNCHANGED vars PROVE Traces'
  BY <1>1, <1>5 DEF vars, Traces, LeftGroups, LeftRows, OrphanGroups, BrokenRows, Row
<1> QED
  BY <1>3, <1>4, <1>5 DEF Next

LEMMA StorageInit == Init => StorageInv
<1> SUFFICES ASSUME Init PROVE StorageInv
  OBVIOUS
<1> USE StorageAssumption DEF Init
<1>1. TypeOK
  BY DEF TypeOK, ErrorKinds
<1>2. Locked /\ OwnRow /\ Progress /\ NoConflict
  BY DEF Locked, LockedStage, OwnRow, Progress, RowStage, Row, NoConflict
<1>3. LeftGroups = {} /\ LeftRows = {}
  BY DEF LeftGroups, LeftRows, OrphanGroups, BrokenRows
<1>4. Traces
  BY <1>3, FS_EmptySet DEF Traces
<1> QED
  BY <1>1, <1>2, <1>4 DEF StorageInv

-----------------------------------------------------------------------------
\* The invariant holds in every state: it rests on the lock of the database
\* that client_handshake holds from its delete to its store.
THEOREM StorageInvariance == Spec => []StorageInv
<1>1. StorageInv /\ [Next]_vars => StorageInv'
  BY TypeStep, LockedStep, OwnRowStep, ProgressStep, ConflictStep, TracesStep DEF StorageInv
<1> QED
  BY StorageInit, <1>1, PTL DEF Spec

\* Every variable has its type, whatever the handshakes, servers and crashes do.
THEOREM StorageTypeCorrect == Spec => []TypeOK
<1>1. StorageInv => TypeOK
  BY DEF StorageInv
<1> QED
  BY <1>1, StorageInvariance, PTL

\* The INSERT of ClientHandshakeState::store never violates the primary key.
THEOREM StoreNeverConflicts == Spec => []NoConflict
<1>1. StorageInv => NoConflict
  BY DEF StorageInv
<1> QED
  BY <1>1, StorageInvariance, PTL

\* While nobody holds a lock, there are at most as many groups without a row
\* and rows without a group as there were crashes.
THEOREM TracesOfCrashes == Spec => []OneTracePerCrash
<1>1. StorageInv => OneTracePerCrash
  <2> SUFFICES ASSUME StorageInv, \A d \in Database : Free(d)
               PROVE  Cardinality(OrphanGroups) + Cardinality(BrokenRows) <= crashes
    BY DEF OneTracePerCrash
  <2>1. \A s \in Session : client[s] \notin LockedStage
    BY StorageAssumption DEF StorageInv, Locked, Free
  <2>2. OrphanGroups = LeftGroups /\ BrokenRows = LeftRows
    BY <2>1 DEF LeftGroups, LeftRows, OrphanGroups, BrokenRows, LockedStage, RowStage
  <2> QED
    BY <2>2 DEF StorageInv, Traces
<1> QED
  BY <1>1, StorageInvariance, PTL

\* store_update of a session that a later handshake displaced never writes the
\* row: its group is gone before, so the handler fails to load it.
THEOREM DisplacedStaysOut == Spec => DisplacedNeverWrites
<1>1. StorageInv /\ [Next]_vars =>
        [\A p \in Profile : rows'[p] \notin {rows[p], NoSession} =>
                             client[rows'[p]] = "store"]_rows
  <2> SUFFICES ASSUME StorageInv, [Next]_vars, rows' # rows,
                      NEW p \in Profile, rows'[p] \notin {rows[p], NoSession}
               PROVE  client[rows'[p]] = "store"
    OBVIOUS
  <2> USE StorageAssumption DEF StorageInv, TypeOK, Progress, Row
  <2>1. ASSUME NEW s \in Session, DeleteRow(s) PROVE FALSE
    BY <2>1 DEF DeleteRow
  <2>2. ASSUME NEW s \in Session, Store(s) PROVE client[rows'[p]] = "store"
    BY <2>2 DEF Store
  <2>3. ASSUME NEW s \in Session, Handle(s) PROVE FALSE
    BY <2>3 DEF Handle
  <2> QED
    BY <2>1, <2>2, <2>3 DEF Next, vars, Begin, ClientLock, ClientStep, Drop, Cancel,
       ServerLock, NoClientHello, ServerStart, ServerDrop, DeleteGroup, Start,
       ReceiveServerHello, NoServerHello, Crash
<1> QED
  BY <1>1, StorageInvariance, PTL DEF Spec, DisplacedNeverWrites

=============================================================================
