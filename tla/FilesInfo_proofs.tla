--------------------------- MODULE FilesInfo_proofs ---------------------------
(***************************************************************************)
(* What each stage of an update, and a whole collecting update, does to    *)
(* filesInfo: the facts that the proofs about Coordinator and Rounds need, *)
(* for every map, batch, conversion and tick.                              *)
(***************************************************************************)
EXTENDS FilesInfo, TLAPS

(* A map from some files to their FileInfo. *)
IsInfo(info) == DOMAIN info \subseteq Files /\ info \in [DOMAIN info -> FileInfo]

(* A processed file was ready; a signal is processed and has an output; a  *)
(* file the conversion matches is a signal or was announced by one.        *)
Coherent(info) ==
    \A f \in DOMAIN info :
        /\ info[f].was_processed => info[f].is_ready
        /\ f \in DOMAIN ReadyConversion => info[f].is_ready
        /\ info[f].is_signal =>
              info[f].was_processed /\ f \in DOMAIN ReadyConversion

LEMMA NewFileInfoType == NewFileInfo \in FileInfo
BY DEF NewFileInfo, FileInfo, InvalidTimeInterval, TimeInterval

LEMMA InfoOfType ==
    ASSUME NEW info, IsInfo(info), NEW f
    PROVE  InfoOf(info, f) \in FileInfo
BY NewFileInfoType DEF InfoOf, IsInfo

LEMMA ModifiedType ==
    ASSUME NEW interval \in TimeInterval, NEW tick \in Nat
    PROVE  Modified(interval, tick) \in TimeInterval
BY DEF Modified, TimeInterval

ProcessedAs(new, info, ready) ==
    /\ IsInfo(new)
    /\ DOMAIN new = DOMAIN info
    /\ \A f \in DOMAIN info :
          /\ new[f].writers = info[f].writers
          /\ new[f].modified = info[f].modified
          /\ new[f].is_initial = info[f].is_initial
          /\ new[f].is_ready = info[f].is_ready
          /\ new[f].is_signal = info[f].is_signal
          /\ new[f].was_signalled = info[f].was_signalled
          /\ new[f].was_processed <=> (info[f].was_processed \/ f \in ready)

LEMMA ModifiedOrdered ==
    ASSUME NEW interval \in TimeInterval, NEW tick \in Nat,
           \/ interval = InvalidTimeInterval
           \/ interval.first <= interval.second /\ interval.second <= tick
    PROVE  LET new == Modified(interval, tick)
           IN  new.first <= new.second /\ new.second <= tick
BY DEF Modified, TimeInterval

LEMMA ProcessedEffect ==
    ASSUME NEW info, IsInfo(info), NEW ready
    PROVE  ProcessedAs(Processed(info, ready), info, ready)
BY DEF Processed, ProcessedAs, IsInfo, FileInfo

(* The reports of one round, one set of files per rank. *)
Batches == [Ranks -> SUBSET Files]

GatheredAs(new, info, batch, tick) ==
    /\ IsInfo(new)
    /\ DOMAIN new = DOMAIN info \cup UNION {batch[r] : r \in Ranks}
    /\ \A f \in DOMAIN new :
          LET old == InfoOf(info, f)
          IN  /\ new[f].writers = old.writers \cup Reporters(batch, f)
              /\ new[f].modified = IF Reporters(batch, f) = {}
                                   THEN old.modified
                                   ELSE Modified(old.modified, tick)
              /\ new[f].is_ready = old.is_ready
              /\ new[f].is_signal = old.is_signal
              /\ new[f].was_signalled = old.was_signalled
              /\ new[f].was_processed = old.was_processed

LEMMA GatheredEffect ==
    ASSUME NEW info, IsInfo(info), NEW batch \in Batches,
           NEW initial \in BOOLEAN, NEW tick \in Nat
    PROVE  GatheredAs(Gathered(info, batch, initial, tick), info, batch, tick)
<1> DEFINE new == Gathered(info, batch, initial, tick)
           known == DOMAIN info \cup UNION {batch[r] : r \in Ranks}
<1>1. DOMAIN new = known /\ known \subseteq Files
  BY DEF Gathered, IsInfo, Batches
<1>2. ASSUME NEW f \in known
      PROVE  LET old == InfoOf(info, f)
             IN  /\ new[f] \in FileInfo
                 /\ new[f].writers = old.writers \cup Reporters(batch, f)
                 /\ new[f].modified = IF Reporters(batch, f) = {}
                                      THEN old.modified
                                      ELSE Modified(old.modified, tick)
                 /\ new[f].is_ready = old.is_ready
                 /\ new[f].is_signal = old.is_signal
                 /\ new[f].was_signalled = old.was_signalled
                 /\ new[f].was_processed = old.was_processed
  <2> DEFINE old == InfoOf(info, f)
  <2>1. old \in FileInfo
    BY InfoOfType
  <2>2. CASE Reporters(batch, f) = {}
    <3>1. f \in DOMAIN info
      BY <1>2, <2>2 DEF Reporters
    <3>2. new[f] = info[f] /\ old = info[f]
      BY <1>2, <2>2, <3>1 DEF Gathered, InfoOf
    <3> QED
      BY <2>1, <2>2, <3>2 DEF FileInfo
  <2>3. CASE Reporters(batch, f) # {}
    <3>1. new[f] = [old EXCEPT
                       !.is_initial = IF f \in batch[Root] THEN initial ELSE @,
                       !.modified = Modified(@, tick),
                       !.writers = @ \cup Reporters(batch, f)]
      BY <1>2, <2>3 DEF Gathered
    <3>2. Modified(old.modified, tick) \in TimeInterval
      BY <2>1, ModifiedType DEF FileInfo
    <3>3. Reporters(batch, f) \subseteq Ranks
      BY DEF Reporters
    <3> QED
      BY <2>1, <2>3, <3>1, <3>2, <3>3 DEF FileInfo
  <2> QED
    BY <2>2, <2>3
<1>3. new = [f \in known |-> new[f]]
  BY DEF Gathered
<1> QED
  BY <1>1, <1>2, <1>3 DEF IsInfo, GatheredAs

SignalledAs(new, info, tick) ==
    LET signals == NewSignals(info)
        outputs == OutputsOf(info)
    IN  /\ IsInfo(new)
        /\ DOMAIN new = DOMAIN info \cup outputs
        /\ \A f \in DOMAIN new :
              LET old == InfoOf(info, f)
              IN  /\ new[f].writers = old.writers
                  /\ new[f].modified = IF f \in outputs
                                       THEN Modified(old.modified, tick)
                                       ELSE old.modified
                  /\ new[f].is_ready <=> old.is_ready \/ f \in signals
                  /\ new[f].is_signal <=> old.is_signal \/ f \in signals
                  /\ new[f].was_signalled <=> old.was_signalled \/ f \in outputs
                  /\ new[f].was_processed <=> old.was_processed \/ f \in signals

LEMMA SignalledEffect ==
    ASSUME NEW info, IsInfo(info), NEW tick \in Nat
    PROVE  SignalledAs(Signalled(info, tick), info, tick)
<1> DEFINE new == Signalled(info, tick)
           signals == NewSignals(info)
           outputs == OutputsOf(info)
           known == DOMAIN info \cup outputs
           marked(f) == IF f \in signals
                        THEN AsSignal(info[f])
                        ELSE InfoOf(info, f)
<1>1. known \subseteq Files
  BY FilesInfoAssumption DEF IsInfo, NewSignals, OutputsOf
<1>2. new = [f \in known |->
                IF f \in outputs
                THEN [marked(f) EXCEPT !.modified = Modified(@, tick),
                                       !.was_signalled = TRUE]
                ELSE marked(f)]
  BY DEF Signalled
<1>3. ASSUME NEW f \in known
      PROVE  LET old == InfoOf(info, f)
             IN  /\ new[f] \in FileInfo
                 /\ new[f].writers = old.writers
                 /\ new[f].modified = IF f \in outputs
                                      THEN Modified(old.modified, tick)
                                      ELSE old.modified
                 /\ new[f].is_ready <=> old.is_ready \/ f \in signals
                 /\ new[f].is_signal <=> old.is_signal \/ f \in signals
                 /\ new[f].was_signalled <=> old.was_signalled \/ f \in outputs
                 /\ new[f].was_processed <=> old.was_processed \/ f \in signals
  <2> DEFINE old == InfoOf(info, f)
             mark == marked(f)
  <2>1. old \in FileInfo
    BY InfoOfType
  <2>2. f \in signals => old = info[f]
    BY DEF NewSignals, InfoOf
  <2>3. /\ mark \in FileInfo
        /\ mark.writers = old.writers
        /\ mark.modified = old.modified
        /\ mark.was_signalled = old.was_signalled
        /\ mark.is_ready <=> old.is_ready \/ f \in signals
        /\ mark.is_signal <=> old.is_signal \/ f \in signals
        /\ mark.was_processed <=> old.was_processed \/ f \in signals
    <3> HIDE DEF old, signals
    <3>1. CASE f \in signals
      <4>1. mark = [old EXCEPT !.is_ready = TRUE, !.is_signal = TRUE,
                               !.was_processed = TRUE]
        BY <2>2, <3>1 DEF AsSignal
      <4> HIDE DEF mark
      <4> QED
        BY <2>1, <3>1, <4>1 DEF FileInfo
    <3>2. CASE f \notin signals
      <4>1. mark = old
        BY <3>2 DEF old
      <4> HIDE DEF mark
      <4> QED
        BY <2>1, <3>2, <4>1
    <3> QED
      BY <3>1, <3>2
  <2>4. new[f] = IF f \in outputs
                 THEN [mark EXCEPT !.modified = Modified(@, tick),
                                   !.was_signalled = TRUE]
                 ELSE mark
    BY <1>2, <1>3
  <2>5. Modified(mark.modified, tick) \in TimeInterval
    BY <2>3, ModifiedType DEF FileInfo
  <2> HIDE DEF mark, old, outputs, signals, new
  <2>6. CASE f \in outputs
    BY <2>3, <2>4, <2>5, <2>6 DEF FileInfo, old
  <2>7. CASE f \notin outputs
    BY <2>3, <2>4, <2>7 DEF old
  <2> QED
    BY <2>6, <2>7
<1> QED
  BY <1>1, <1>2, <1>3 DEF IsInfo, SignalledAs

ReadiedAs(new, info, known, done) ==
    /\ IsInfo(new)
    /\ DOMAIN new = DOMAIN info
    /\ \A f \in DOMAIN info :
          /\ new[f].writers = info[f].writers
          /\ new[f].modified = info[f].modified
          /\ new[f].is_initial = info[f].is_initial
          /\ new[f].is_signal = info[f].is_signal
          /\ new[f].was_signalled = info[f].was_signalled
          /\ new[f].was_processed = info[f].was_processed
          /\ new[f].is_ready <=>
                info[f].is_ready \/ BecomesReady(info, known, done, f)

LEMMA ReadiedEffect ==
    ASSUME NEW info, IsInfo(info), NEW known, NEW done \in BOOLEAN
    PROVE  ReadiedAs(Readied(info, known, done), info, known, done)
BY DEF Readied, ReadiedAs, IsInfo, FileInfo

(***************************************************************************)
(* The whole update, as far as the invariants look at it.                  *)
(***************************************************************************)
CollectedAs(new, info, ready, known, batch, done, tick) ==
    /\ IsInfo(new)
    /\ Coherent(new)
    /\ DOMAIN info \subseteq DOMAIN new
    /\ UNION {batch[r] : r \in Ranks} \subseteq DOMAIN new
    \* what is known of a file is kept
    /\ \A f \in DOMAIN info :
          /\ info[f].is_ready => new[f].is_ready
          /\ info[f].is_signal => new[f].is_signal
          /\ info[f].was_processed \/ f \in ready => new[f].was_processed
    /\ \A f \in DOMAIN new :
          \* the evidence an unready file lacks
          /\ ~new[f].is_ready => ~BecomesReady(new, known, done, f)
          \* a file is retired because it was handed out or is a signal
          /\ new[f].was_processed =>
                \/ f \in DOMAIN info /\ info[f].was_processed
                \/ f \in DOMAIN info /\ f \in ready
                \/ f \in DOMAIN ReadyConversion /\ new[f].is_signal
          \* a new signal makes its output ready
          /\ new[f].is_signal =>
                \/ f \in DOMAIN info /\ info[f].is_signal
                \/ /\ ReadyConversion[f] \in DOMAIN new
                   /\ new[ReadyConversion[f]].is_ready
          \* a signal file that was reported does not stay unprocessed
          /\ f \in PureSignals => new[f].was_processed
          /\ new[f].writers = InfoOf(info, f).writers \cup Reporters(batch, f)
    /\ \A f \in DOMAIN new :
          \/ new[f].modified = InfoOf(info, f).modified /\ f \in DOMAIN info
          \/ new[f].modified = Modified(InfoOf(info, f).modified, tick)
          \/ new[f].modified = Modified(Modified(InfoOf(info, f).modified, tick), tick)

LEMMA CollectedEffect ==
    ASSUME NEW info, IsInfo(info), Coherent(info),
           NEW ready \in SUBSET DOMAIN info, \A f \in ready : info[f].is_ready,
           NEW known, NEW batch \in Batches, NEW initial \in BOOLEAN,
           NEW done \in BOOLEAN, NEW tick \in Nat
    PROVE  CollectedAs(Collected(info, ready, known, batch, initial, done, tick),
                       info, ready, GatheredWriters(known, batch), batch, done, tick)
<1> DEFINE p == Processed(info, ready)
           g == Gathered(p, batch, initial, tick)
           s == Signalled(g, tick)
           writers2 == GatheredWriters(known, batch)
           new == Readied(s, writers2, done)
           signals == NewSignals(g)
           outputs == OutputsOf(g)
<1>0. Collected(info, ready, known, batch, initial, done, tick) = new
  BY DEF Collected
<1>1. ProcessedAs(p, info, ready)
  BY ProcessedEffect
<1>2. GatheredAs(g, p, batch, tick)
  <2> HIDE DEF p
  <2> QED
    BY <1>1, GatheredEffect DEF ProcessedAs
<1>3. SignalledAs(s, g, tick)
  <2> HIDE DEF g
  <2> QED
    BY <1>2, SignalledEffect DEF GatheredAs
<1>4. ReadiedAs(new, s, writers2, done)
  <2> HIDE DEF s, writers2
  <2> QED
    BY <1>3, ReadiedEffect DEF SignalledAs
<1> HIDE DEF p, g, s, new, writers2
<1>5. /\ ~NewFileInfo.is_ready
      /\ ~NewFileInfo.is_signal
      /\ ~NewFileInfo.was_signalled
      /\ ~NewFileInfo.was_processed
      /\ NewFileInfo.writers = {}
  BY DEF NewFileInfo
\* the entry of each file before the signals are looked for
<1>6. ASSUME NEW f
      PROVE  /\ InfoOf(g, f).is_ready <=> InfoOf(info, f).is_ready
             /\ InfoOf(g, f).is_signal <=> InfoOf(info, f).is_signal
             /\ InfoOf(g, f).was_processed <=>
                   (InfoOf(info, f).was_processed \/ (f \in DOMAIN info /\ f \in ready))
             /\ InfoOf(g, f).writers = InfoOf(info, f).writers \cup Reporters(batch, f)
             /\ \/ InfoOf(g, f).modified = InfoOf(info, f).modified
                \/ InfoOf(g, f).modified = Modified(InfoOf(info, f).modified, tick)
  <2>1. CASE f \in DOMAIN g
    BY <1>1, <1>2, <1>5, <2>1 DEF InfoOf, ProcessedAs, GatheredAs
  <2>2. CASE f \notin DOMAIN g
    <3>1. f \notin DOMAIN info /\ \A r \in Ranks : f \notin batch[r]
      BY <1>1, <1>2, <2>2 DEF ProcessedAs, GatheredAs
    <3>2. Reporters(batch, f) = {}
      BY <3>1 DEF Reporters
    <3> QED
      BY <2>2, <3>1, <3>2, <1>5 DEF InfoOf
  <2> QED
    BY <2>1, <2>2
\* the entry of each file when the ready files are chosen
<1>7. DOMAIN new = DOMAIN g \cup outputs
  BY <1>3, <1>4 DEF SignalledAs, ReadiedAs
<1>8. ASSUME NEW f \in DOMAIN new
      PROVE  /\ new[f].is_signal <=> InfoOf(info, f).is_signal \/ f \in signals
             /\ new[f].was_processed <=>
                   \/ InfoOf(info, f).was_processed
                   \/ f \in DOMAIN info /\ f \in ready
                   \/ f \in signals
             /\ new[f].is_ready <=>
                   \/ InfoOf(info, f).is_ready
                   \/ f \in signals
                   \/ BecomesReady(s, writers2, done, f)
             /\ new[f].was_signalled <=> s[f].was_signalled
             /\ f \in outputs => new[f].was_signalled
  BY <1>3, <1>4, <1>6, <1>8 DEF SignalledAs, ReadiedAs
<1>9. ASSUME NEW f \in DOMAIN new
      PROVE  BecomesReady(new, writers2, done, f) => BecomesReady(s, writers2, done, f)
  <2>1. DOMAIN new = DOMAIN s /\ f \in DOMAIN s
    BY <1>4, <1>9 DEF ReadiedAs
  <2>2. /\ new[f].writers = s[f].writers
        /\ new[f].is_initial = s[f].is_initial
        /\ new[f].was_signalled <=> s[f].was_signalled
        /\ new[f].was_processed <=> s[f].was_processed
        /\ s[f].is_ready => new[f].is_ready
    BY <1>4, <2>1 DEF ReadiedAs
  <2> QED
    BY <2>1, <2>2
    DEF BecomesReady, MoreThanOneFile, SeenByAllWriters, IsOlderFile
<1>10. ASSUME NEW f
       PROVE  /\ InfoOf(info, f).was_processed => InfoOf(info, f).is_ready
              /\ InfoOf(info, f).is_ready => f \in DOMAIN info
              /\ InfoOf(info, f).was_processed => f \in DOMAIN info
              /\ InfoOf(info, f).is_signal =>
                    f \in DOMAIN ReadyConversion /\ f \in DOMAIN info
  BY <1>5 DEF InfoOf, Coherent
<1>11. /\ IsInfo(new)
       /\ DOMAIN info \subseteq DOMAIN new
       /\ UNION {batch[r] : r \in Ranks} \subseteq DOMAIN new
  BY <1>1, <1>2, <1>3, <1>4 DEF ProcessedAs, GatheredAs, SignalledAs, ReadiedAs
<1>12. ASSUME NEW f \in DOMAIN info
       PROVE  /\ info[f].is_ready => new[f].is_ready
              /\ info[f].is_signal => new[f].is_signal
              /\ info[f].was_processed \/ f \in ready => new[f].was_processed
  BY <1>8, <1>11, <1>12 DEF InfoOf
<1>13. ASSUME NEW f \in DOMAIN new
       PROVE  ~new[f].is_ready => ~BecomesReady(new, writers2, done, f)
  BY <1>8, <1>9, <1>13
<1>14. ASSUME NEW f \in DOMAIN new
       PROVE  new[f].was_processed => new[f].is_ready
  BY <1>8, <1>10, <1>14 DEF InfoOf
<1>15. ASSUME NEW f \in DOMAIN new, new[f].is_signal
       PROVE  f \in DOMAIN ReadyConversion /\ new[f].was_processed
  <2>1. CASE f \in signals
    BY <1>8, <2>1 DEF NewSignals
  <2>2. CASE InfoOf(info, f).is_signal
    BY <1>8, <1>10, <2>2 DEF InfoOf, Coherent
  <2> QED
    BY <1>8, <1>15, <2>1, <2>2
<1>16. ASSUME NEW f \in DOMAIN new, new[f].was_processed
       PROVE  \/ f \in DOMAIN info /\ info[f].was_processed
              \/ f \in DOMAIN info /\ f \in ready
              \/ f \in DOMAIN ReadyConversion /\ new[f].is_signal
  <2>1. CASE f \in signals
    BY <1>8, <2>1 DEF NewSignals
  <2>2. CASE f \notin signals
    BY <1>8, <1>10, <1>16, <2>2 DEF InfoOf
  <2> QED
    BY <2>1, <2>2
<1>17. ASSUME NEW f \in DOMAIN new, new[f].is_signal
       PROVE  \/ f \in DOMAIN info /\ info[f].is_signal
              \/ /\ ReadyConversion[f] \in DOMAIN new
                 /\ new[ReadyConversion[f]].is_ready
  <2>1. CASE InfoOf(info, f).is_signal
    BY <1>10, <2>1 DEF InfoOf
  <2>2. CASE f \in signals
    <3> DEFINE o == ReadyConversion[f]
    <3>1. o \in outputs
      BY <2>2 DEF OutputsOf
    <3>2. o \in DOMAIN new
      BY <1>7, <3>1
    <3>3. new[o].was_signalled
      BY <1>8, <3>1, <3>2
    <3>4. CASE new[o].was_processed
      BY <1>14, <3>2, <3>4
    <3>5. CASE ~new[o].was_processed
      BY <1>13, <3>2, <3>3, <3>5 DEF BecomesReady
    <3> QED
      BY <3>2, <3>4, <3>5
  <2> QED
    BY <1>8, <1>17, <2>1, <2>2
<1>18. ASSUME NEW f \in DOMAIN new, f \in PureSignals
       PROVE  new[f].was_processed
  <2>1. f \notin outputs
    BY <1>18 DEF PureSignals, NewSignals, OutputsOf
  <2>2. f \in DOMAIN g /\ f \in DOMAIN ReadyConversion
    BY <1>7, <1>18, <2>1 DEF PureSignals
  <2>3. CASE g[f].was_processed
    BY <1>6, <1>8, <2>2, <2>3 DEF InfoOf
  <2>4. CASE ~g[f].was_processed
    BY <1>8, <2>2, <2>4 DEF NewSignals
  <2> QED
    BY <2>3, <2>4
<1>19. ASSUME NEW f \in DOMAIN new
       PROVE  new[f].writers = InfoOf(info, f).writers \cup Reporters(batch, f)
  BY <1>3, <1>4, <1>6, <1>19 DEF SignalledAs, ReadiedAs
<1>20. ASSUME NEW f \in DOMAIN new
       PROVE  \/ new[f].modified = InfoOf(info, f).modified /\ f \in DOMAIN info
              \/ new[f].modified = Modified(InfoOf(info, f).modified, tick)
              \/ new[f].modified =
                    Modified(Modified(InfoOf(info, f).modified, tick), tick)
  <2>1. new[f].modified = IF f \in outputs
                          THEN Modified(InfoOf(g, f).modified, tick)
                          ELSE InfoOf(g, f).modified
    BY <1>3, <1>4, <1>20 DEF SignalledAs, ReadiedAs
  <2>2. CASE f \in outputs
    BY <1>6, <2>1, <2>2
  <2>3. CASE f \notin outputs
    <3>1. f \in DOMAIN g
      BY <1>7, <1>20, <2>3
    <3>2. f \in DOMAIN info \/ Reporters(batch, f) # {}
      BY <1>1, <1>2, <3>1 DEF ProcessedAs, GatheredAs, Reporters
    <3>3. CASE Reporters(batch, f) = {}
      BY <1>1, <1>2, <2>1, <2>3, <3>1, <3>2, <3>3
      DEF InfoOf, ProcessedAs, GatheredAs
    <3>4. CASE Reporters(batch, f) # {}
      <4>1. InfoOf(p, f).modified = InfoOf(info, f).modified
        BY <1>1 DEF InfoOf, ProcessedAs
      <4> QED
        BY <1>2, <2>1, <2>3, <3>1, <3>4, <4>1 DEF InfoOf, GatheredAs
    <3> QED
      BY <3>3, <3>4
  <2> QED
    BY <2>2, <2>3
<1>21. ASSUME NEW f \in DOMAIN new, f \in DOMAIN ReadyConversion
       PROVE  new[f].is_ready
  <2>1. CASE f \in outputs
    <3>1. CASE new[f].was_processed
      BY <1>14, <3>1
    <3>2. CASE ~new[f].was_processed
      BY <1>8, <1>13, <2>1, <3>2 DEF BecomesReady
    <3> QED
      BY <3>1, <3>2
  <2>2. CASE f \notin outputs
    <3>1. f \in DOMAIN g
      BY <1>7, <1>21, <2>2
    <3>2. CASE g[f].was_processed
      <4>1. new[f].was_processed
        BY <1>6, <1>8, <1>21, <3>1, <3>2 DEF InfoOf
      <4> QED
        BY <1>14, <1>21, <4>1
    <3>3. CASE ~g[f].was_processed
      BY <1>8, <1>21, <3>1, <3>3 DEF NewSignals
    <3> QED
      BY <3>2, <3>3
  <2> QED
    BY <2>1, <2>2
<1> QED
  <2>1. Coherent(new)
    BY <1>14, <1>15, <1>21 DEF Coherent
  <2> QED
    BY <1>0, <1>11, <1>12, <1>13, <1>16, <1>17, <1>18, <1>19, <1>20, <2>1
    DEF CollectedAs, writers2
=============================================================================
