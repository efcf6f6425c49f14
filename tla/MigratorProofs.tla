--------------------------- MODULE MigratorProofs ---------------------------
(***************************************************************************)
(* The stream counters of the migrator are exact, and before the drain     *)
(* timeout the drain loop cuts no accepted stream other than one that was  *)
(* inside WrapStream when it looked, for any number of connections and     *)
(* streams.                                                                *)
(***************************************************************************)
EXTENDS Migrator, FiniteSetTheorems, TLAPS

\* A stream past WrapStream's check has a connection that will count it.
HasParent ==
    \A s \in Streams :
        sstate[s] \in {"checked", "active"} => parent[s] \in Conns

\* Streams WrapStream accepted for a connection.
Accepted(c) ==
    {s \in Streams : sstate[s] \in {"checked", "active"} /\ parent[s] = c}

\* While drainIdle is about to close a connection that has not timed out, every
\* stream accepted for it was between the two steps of WrapStream when the loop
\* read the counter: none was counted, and the draining flag lets none in.
PickedIsIdle ==
    \A c \in Conns : picked = c =>
        /\ c \in connections \cap draining
        /\ c \in expired \/ Accepted(c) \subseteq late

\* The inductive invariant: exact counters need to know that a counted stream
\* has a parent, which only the steps of WrapStream establish; the drain needs
\* what its test established to last until its Close.
MIInv == TypeOK /\ HasParent /\ CountExact /\ PickedIsIdle

\* The streams counted on a connection are finitely many.
LEMMA CountedFinite ==
    ASSUME NEW c \in Conns
    PROVE  IsFiniteSet(CountedOn(c)) /\ CountedOn(c) \subseteq Streams
  <1>1. CountedOn(c) \subseteq Streams
    BY DEF CountedOn
  <1> QED  BY <1>1, FS_Subset, MigratorAssumption

\* The initial state satisfies the invariant.
LEMMA MInitIInv == MInit => MIInv
  <1> SUFFICES ASSUME MInit PROVE MIInv
    OBVIOUS
  <1>0. stopped \in BOOLEAN
    BY DEF MInit
  <1>1. TypeOK
    BY <1>0 DEF MInit, TypeOK, StreamStates
  <1>2. HasParent
    BY DEF MInit, HasParent
  <1>3. CountExact
    <2> SUFFICES ASSUME NEW c \in Conns
                 PROVE  activeStreams[c] = Cardinality(CountedOn(c))
      BY DEF CountExact
    <2>1. CountedOn(c) = {}
      BY DEF MInit, CountedOn
    <2> QED  BY <2>1, FS_EmptySet DEF MInit
  <1>4. PickedIsIdle
    BY MigratorAssumption DEF MInit, PickedIsIdle
  <1> QED  BY <1>1, <1>2, <1>3, <1>4 DEF MIInv

\* Steps that touch no stream keep the counters exact.
LEMMA StreamsUntouched ==
    ASSUME MIInv, UNCHANGED streamVars
    PROVE  HasParent' /\ CountExact'
  <1>1. HasParent'
    BY DEF MIInv, HasParent, streamVars
  <1>2. ASSUME NEW c \in Conns PROVE CountedOn(c)' = CountedOn(c)
    BY DEF CountedOn, streamVars
  <1>3. CountExact'
    BY <1>2 DEF MIInv, CountExact, streamVars
  <1> QED  BY <1>1, <1>3

\* Steps that leave the connection in drainIdle's hands tracked and draining,
\* and add no stream to those accepted for it, keep what the test established.
LEMMA PickedStays ==
    ASSUME MIInv, UNCHANGED drainVars,
           draining \subseteq draining', expired \subseteq expired',
           connections \subseteq connections',
           \A c \in draining : Accepted(c)' \subseteq Accepted(c)
    PROVE  PickedIsIdle'
  BY DEF MIInv, PickedIsIdle, drainVars

\* Steps after which drainIdle has no connection in its hands.
LEMMA NothingPicked ==
    ASSUME picked' = NoConn
    PROVE  PickedIsIdle'
  BY MigratorAssumption DEF PickedIsIdle

\* Without a step of a stream the accepted streams stay the same.
LEMMA AcceptedUntouched ==
    ASSUME UNCHANGED streamVars, NEW c
    PROVE  Accepted(c)' = Accepted(c)
  BY DEF Accepted, streamVars

\* Every step preserves the invariant.
LEMMA MStepIInv == MIInv /\ [MNext]_migratorVars => MIInv'
  <1> SUFFICES ASSUME MIInv, [MNext]_migratorVars PROVE MIInv'
    OBVIOUS
  <1> USE DEF MIInv
  <1>1. CASE Migrate
    <2>1. TypeOK'
      BY <1>1 DEF TypeOK, Migrate, streamVars, drainVars
    <2>2. HasParent' /\ CountExact'
      BY <1>1, StreamsUntouched DEF Migrate
    <2>3. PickedIsIdle'
      BY <1>1, NothingPicked DEF Migrate, drainVars
    <2> QED  BY <2>1, <2>2, <2>3
  <1>2. CASE Close
    <2>1. TypeOK'
      BY <1>2 DEF TypeOK, Close, streamVars, drainVars
    <2>2. HasParent' /\ CountExact'
      BY <1>2, StreamsUntouched DEF Close
    <2>3. PickedIsIdle'
      BY <1>2, NothingPicked DEF Close, drainVars
    <2> QED  BY <2>1, <2>2, <2>3
  <1>3. ASSUME NEW c \in Conns, Dialled(c) PROVE MIInv'
    <2>1. TypeOK'
      BY <1>3 DEF TypeOK, Dialled, streamVars, drainVars
    <2>2. HasParent' /\ CountExact'
      BY <1>3, StreamsUntouched DEF Dialled
    <2>3. PickedIsIdle'
      BY <1>3, PickedStays, AcceptedUntouched DEF TypeOK, Dialled, drainVars
    <2> QED  BY <2>1, <2>2, <2>3
  <1>4. ASSUME NEW c \in Conns, Track(c) PROVE MIInv'
    <2>1. TypeOK'
      BY <1>4 DEF TypeOK, Track, streamVars, drainVars
    <2>2. HasParent' /\ CountExact'
      BY <1>4, StreamsUntouched DEF Track
    <2>3. PickedIsIdle'
      BY <1>4, NothingPicked DEF Track, drainVars
    <2> QED  BY <2>1, <2>2, <2>3
  <1>5. ASSUME NEW c \in Conns, DrainTimeout(c) PROVE MIInv'
    <2>1. TypeOK'
      BY <1>5 DEF TypeOK, DrainTimeout, streamVars, drainVars
    <2>2. HasParent' /\ CountExact'
      BY <1>5, StreamsUntouched DEF DrainTimeout
    <2>3. PickedIsIdle'
      BY <1>5, PickedStays, AcceptedUntouched
         DEF TypeOK, DrainTimeout, drainVars
    <2> QED  BY <2>1, <2>2, <2>3
  <1>6. ASSUME NEW c \in Conns, DrainTest(c) PROVE MIInv'
    <2>1. TypeOK'
      BY <1>6 DEF TypeOK, DrainTest, Uncounted, streamVars
    <2>2. HasParent' /\ CountExact'
      BY <1>6, StreamsUntouched DEF DrainTest
    <2>3. PickedIsIdle'
      <3>1. CASE c \in expired
        BY <1>6, <3>1 DEF PickedIsIdle, DrainTest
      <3>2. CASE activeStreams[c] = 0
        <4>1. Cardinality(CountedOn(c)) = 0
          BY <3>2 DEF CountExact
        <4>2. CountedOn(c) = {}
          BY <4>1, CountedFinite, FS_EmptySet
        <4>3. Accepted(c) \subseteq Uncounted(c)
          BY <4>2 DEF Accepted, Uncounted, CountedOn
        <4>4. Accepted(c)' = Accepted(c)
          BY <1>6, AcceptedUntouched DEF DrainTest
        <4> QED  BY <1>6, <4>3, <4>4 DEF PickedIsIdle, DrainTest
      <3> QED  BY <1>6, <3>1, <3>2 DEF DrainTest
    <2> QED  BY <2>1, <2>2, <2>3
  <1>7. ASSUME NEW c \in Conns, DrainClose(c) PROVE MIInv'
    <2>1. TypeOK'
      BY <1>7 DEF TypeOK, PickedIsIdle, DrainClose, streamVars
    <2>2. HasParent' /\ CountExact'
      BY <1>7, StreamsUntouched DEF DrainClose
    <2>3. PickedIsIdle'
      BY <1>7, NothingPicked DEF DrainClose, drainVars
    <2> QED  BY <2>1, <2>2, <2>3
  <1>8. ASSUME NEW c \in Conns, CloseConn(c) PROVE MIInv'
    <2>1. TypeOK'
      BY <1>8 DEF TypeOK, CloseConn, streamVars, drainVars
    <2>2. HasParent' /\ CountExact'
      BY <1>8, StreamsUntouched DEF CloseConn
    <2>3. PickedIsIdle'
      BY <1>8, PickedStays, AcceptedUntouched DEF TypeOK, CloseConn, drainVars
    <2> QED  BY <2>1, <2>2, <2>3
  <1>9. ASSUME NEW s \in Streams, NEW c \in connections, OpenRaw(s, c)
        PROVE  MIInv'
    <2>1. TypeOK'
      BY <1>9 DEF TypeOK, OpenRaw, connVars, StreamStates
    <2>2. HasParent'
      BY <1>9 DEF TypeOK, HasParent, OpenRaw
    <2>3. ASSUME NEW d \in Conns PROVE CountedOn(d)' = CountedOn(d)
      BY <1>9 DEF TypeOK, CountedOn, OpenRaw
    <2>4. CountExact'
      BY <1>9, <2>3 DEF CountExact, OpenRaw
    <2>5. ASSUME NEW d \in Conns PROVE Accepted(d)' \subseteq Accepted(d)
      BY <1>9 DEF TypeOK, Accepted, OpenRaw
    <2>6. PickedIsIdle'
      BY <1>9, <2>5, PickedStays DEF TypeOK, OpenRaw, connVars, drainVars
    <2> QED  BY <2>1, <2>2, <2>4, <2>6
  <1>10. ASSUME NEW s \in Streams, NEW c \in connections \cup closed,
                CheckDraining(s, c)
         PROVE  MIInv'
    <2>1. c \in Conns
      BY DEF TypeOK
    <2>2. TypeOK'
      BY <1>10, <2>1 DEF TypeOK, CheckDraining, connVars, StreamStates
    <2>3. HasParent'
      BY <1>10, <2>1 DEF TypeOK, HasParent, CheckDraining
    <2>4. ASSUME NEW d \in Conns PROVE CountedOn(d)' = CountedOn(d)
      BY <1>10 DEF TypeOK, CountedOn, CheckDraining
    <2>5. CountExact'
      BY <1>10, <2>4 DEF CountExact, CheckDraining
    <2>6. ASSUME NEW d \in draining PROVE Accepted(d)' \subseteq Accepted(d)
      BY <1>10, <2>6 DEF TypeOK, Accepted, CheckDraining
    <2>7. PickedIsIdle'
      BY <1>10, <2>6, PickedStays DEF CheckDraining, connVars, drainVars
    <2> QED  BY <2>2, <2>3, <2>5, <2>7
  <1>11. ASSUME NEW s \in Streams, CountStream(s) PROVE MIInv'
    <2>1. PICK p \in Conns : p = parent[s]
      BY <1>11 DEF HasParent, CountStream
    <2>2. TypeOK'
      BY <1>11, <2>1 DEF TypeOK, CountStream, connVars, StreamStates
    <2>3. HasParent'
      BY <1>11 DEF TypeOK, HasParent, CountStream
    <2>4. CountedOn(p)' = CountedOn(p) \cup {s} /\ s \notin CountedOn(p)
      BY <1>11, <2>1 DEF TypeOK, CountedOn, CountStream
    <2>5. Cardinality(CountedOn(p)') = Cardinality(CountedOn(p)) + 1
      BY <2>1, <2>4, CountedFinite, FS_AddElement
    <2>6. ASSUME NEW d \in Conns, d # p PROVE CountedOn(d)' = CountedOn(d)
      BY <1>11, <2>1, <2>6 DEF TypeOK, CountedOn, CountStream
    <2>7. CountExact'
      BY <1>11, <2>1, <2>5, <2>6 DEF TypeOK, CountExact, CountStream
    <2>8. ASSUME NEW d \in Conns PROVE Accepted(d)' \subseteq Accepted(d)
      BY <1>11 DEF TypeOK, Accepted, CountStream
    <2>9. PickedIsIdle'
      BY <1>11, <2>8, PickedStays DEF TypeOK, CountStream, connVars, drainVars
    <2> QED  BY <2>2, <2>3, <2>7, <2>9
  <1>12. ASSUME NEW s \in Streams, CloseStream(s) PROVE MIInv'
    <2>1. PICK p \in Conns : p = parent[s]
      BY <1>12 DEF HasParent, CloseStream
    <2>2. TypeOK'
      BY <1>12, <2>1 DEF TypeOK, CloseStream, connVars, StreamStates
    <2>3. HasParent'
      BY <1>12 DEF TypeOK, HasParent, CloseStream
    <2>4. CountedOn(p)' = CountedOn(p) \ {s} /\ s \in CountedOn(p)
      BY <1>12, <2>1 DEF TypeOK, CountedOn, CloseStream
    <2>5. Cardinality(CountedOn(p)') = Cardinality(CountedOn(p)) - 1
      BY <2>1, <2>4, CountedFinite, FS_RemoveElement
    <2>6. ASSUME NEW d \in Conns, d # p PROVE CountedOn(d)' = CountedOn(d)
      BY <1>12, <2>1, <2>6 DEF TypeOK, CountedOn, CloseStream
    <2>7. CountExact'
      BY <1>12, <2>1, <2>5, <2>6 DEF TypeOK, CountExact, CloseStream
    <2>8. ASSUME NEW d \in Conns PROVE Accepted(d)' \subseteq Accepted(d)
      BY <1>12 DEF TypeOK, Accepted, CloseStream
    <2>9. PickedIsIdle'
      BY <1>12, <2>8, PickedStays DEF TypeOK, CloseStream, connVars, drainVars
    <2> QED  BY <2>2, <2>3, <2>7, <2>9
  <1>13. CASE UNCHANGED migratorVars
    <2>1. TypeOK'
      BY <1>13 DEF TypeOK, migratorVars
    <2>2. UNCHANGED streamVars
      BY <1>13 DEF migratorVars, streamVars
    <2>3. PickedIsIdle'
      BY <1>13, <2>2, PickedStays, AcceptedUntouched
         DEF migratorVars, drainVars
    <2> QED  BY <2>1, <2>2, <2>3, StreamsUntouched
  <1> QED
    BY <1>1, <1>2, <1>3, <1>4, <1>5, <1>6, <1>7, <1>8, <1>9, <1>10, <1>11,
       <1>12, <1>13 DEF MNext

\* The strengthened invariant holds in every reachable state.
THEOREM MigratorInvariance == MSpec => []MIInv
  BY MInitIInv, MStepIInv, PTL DEF MSpec

\* migrateConn.activeStreams is the number of open streams WrapStream counted,
\* for any interleaving of WrapStream, migrateStream.Close and the drain loop.
THEOREM CountersExact == MSpec => []CountExact
  BY MigratorInvariance, PTL DEF MIInv

\* Before drainTimeout, drainIdle closes a connection under a stream accepted
\* for it only if the stream was inside WrapStream, past the draining check and
\* not yet counted, when drainIdle read the counter.
THEOREM DrainSparesStreams == MSpec => DrainCutsOnlyLate
  <1> DEFINE Spares ==
        \A c \in ClosedEarly : \A s \in Streams :
            (sstate[s] \in {"checked", "active"} /\ parent[s] = c)
                => s \in late
  <1>1. MIInv /\ [MNext]_migratorVars => [Spares]_migratorVars
    <2> SUFFICES ASSUME MIInv, MNext, NEW c \in ClosedEarly,
                        NEW s \in Streams,
                        sstate[s] \in {"checked", "active"}, parent[s] = c
                 PROVE  s \in late
      OBVIOUS
    <2>1. /\ ~ stopped'
          /\ c \in closed' \ closed
          /\ c \in connections \ connections'
          /\ c \notin expired
      BY DEF ClosedEarly
    <2>2. c \in Conns
      BY <2>1 DEF MIInv, TypeOK
    <2>3. picked = c
      <3>1. \E d \in Conns : DrainClose(d)
        BY <2>1 DEF MNext, Migrate, Close, Dialled, Track, DrainTimeout,
                    DrainTest, CloseConn, OpenRaw, CheckDraining, CountStream,
                    CloseStream, connVars
      <3> QED  BY <2>1, <3>1 DEF DrainClose
    <2>4. Accepted(c) \subseteq late
      BY <2>1, <2>2, <2>3 DEF MIInv, PickedIsIdle
    <2> QED  BY <2>4 DEF Accepted
  <1> QED  BY <1>1, MigratorInvariance, PTL DEF MSpec, DrainCutsOnlyLate
=============================================================================
