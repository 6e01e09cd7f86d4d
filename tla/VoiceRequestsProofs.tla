-------------------------- MODULE VoiceRequestsProofs --------------------------
(***************************************************************************)
(* Theorems about the voice directory and the requests made from it, for   *)
(* any voices, sources, importing processes and bounds.                    *)
(*                                                                         *)
(* A renamed temporary file is what the server finds, so the inductive     *)
(* invariant says what is in a temporary file at the moment of its rename: *)
(* the whole of a source that was read and found well-formed, and nobody   *)
(* else's file.                                                            *)
(***************************************************************************)
EXTENDS VoiceRequests, TLAPS

\* No sidecar stage is reached with a source that has none, no other stage
\* with one that does not parse.
SourcesChecked ==
    \A i \in Importers :
        /\ imp[i].pc \in Stages \ {"read"} => Parses(imp[i].source)
        /\ imp[i].pc \in {"sideWrite", "sideFlush", "sideRename"} => imp[i].source \in Accompanied

\* What is renamed is complete.
RenamesWhole ==
    \A t \in temps :
        t.owner \in Importers /\ imp[t.owner].pc \in {"rename", "sideRename"}
            => t.file = imp[t.owner].source

LibInv ==
    LibTypeOK /\ SourcesChecked /\ RenamesWhole /\ TempsReclaimed /\ ServedWhole

Process == {Idle} \cup Run

-----------------------------------------------------------------------------
(* What the operators on the processes and the temporary files do.         *)

\* An importer moves from one stage of cmd_import to another with its source.
LEMMA GoesOn ==
    ASSUME LibTypeOK, NEW i \in Importers, imp[i].pc \in Stages,
           NEW p \in Stages, Goes(i, p)
    PROVE  /\ imp' \in [Importers -> Process]
           /\ imp'[i] \in Run /\ imp[i] \in Run
           /\ imp'[i].pc = p /\ imp'[i].source = imp[i].source
           /\ \A j \in Importers \ {i} : imp'[j] = imp[j]
<1>1. imp[i] \in Run
  BY DEF LibTypeOK, Idle, Stages
<1>2. [imp[i] EXCEPT !.pc = p] \in Run
  BY <1>1 DEF Run
<1>3. imp' = [imp EXCEPT ![i] = [imp[i] EXCEPT !.pc = p]]
  BY DEF Goes
<1>4. imp'[i] = [imp[i] EXCEPT !.pc = p]
  BY <1>3 DEF LibTypeOK
<1>5. imp'[i].pc = p /\ imp'[i].source = imp[i].source
  BY <1>1, <1>4 DEF Run
<1>6. imp' \in [Importers -> Process]
  BY <1>2, <1>3 DEF LibTypeOK, Process
<1> QED  BY <1>1, <1>2, <1>3, <1>4, <1>5, <1>6 DEF LibTypeOK

\* An importer that ends leaves the other processes alone.
LEMMA EndsAlone ==
    ASSUME LibTypeOK, NEW i \in Importers, Ends(i)
    PROVE  /\ imp' \in [Importers -> Process]
           /\ imp'[i].pc = "idle"
           /\ \A j \in Importers \ {i} : imp'[j] = imp[j]
BY DEF LibTypeOK, Ends, Process, Idle

\* The temporary file of an importer is replaced by one with file f.
LEMMA TempReplaced ==
    ASSUME LibTypeOK, NEW i \in Importers, NEW k \in {"binary", "sidecar"},
           NEW f \in Contents \cup {NoFile}, TempIs(i, k, f)
    PROVE  /\ temps' \subseteq Temp
           /\ \A t \in temps' : t.owner = i => t.file = f
           /\ \A t \in temps' : t.owner # i => t \in temps
<1> DEFINE new == [owner |-> i, kind |-> k, file |-> f]
<1>1. new \in Temp
  BY DEF Temp
<1>2. temps' = (temps \ TempsOf(i)) \cup {new}
  BY DEF TempIs
<1>3. new.owner = i /\ new.file = f
  OBVIOUS
<1> HIDE DEF new
<1> QED  BY <1>1, <1>2, <1>3 DEF TempsOf, LibTypeOK

\* The temporary file of an importer goes away.
LEMMA TempUnlinked ==
    ASSUME LibTypeOK, NEW i \in Importers, Unlinks(i)
    PROVE  /\ temps' \subseteq Temp
           /\ \A t \in temps' : t.owner # i /\ t \in temps
BY DEF Unlinks, TempsOf, LibTypeOK

\* The temporary file of an importer is given to nobody.
LEMMA TempAbandoned ==
    ASSUME LibTypeOK, NEW i \in Importers, Abandons(i)
    PROVE  /\ temps' \subseteq Temp
           /\ \A t \in temps' : t.owner # i /\ (t \in temps \/ t.owner = Nobody)
<1> DEFINE orphans == {[t EXCEPT !.owner = Nobody] : t \in TempsOf(i)}
<1>1. temps' = (temps \ TempsOf(i)) \cup orphans
  BY DEF Abandons
<1>2. \A o \in orphans : o \in Temp /\ o.owner = Nobody
  BY DEF TempsOf, LibTypeOK, Temp
<1>3. Nobody # i
  BY LibraryAssumption
<1> HIDE DEF orphans
<1>4. temps' \subseteq Temp
  BY <1>1, <1>2 DEF LibTypeOK
<1>5. \A t \in temps' : t.owner # i /\ (t \in temps \/ t.owner = Nobody)
  BY <1>1, <1>2, <1>3 DEF TempsOf
<1> QED  BY <1>4, <1>5

-----------------------------------------------------------------------------
(* Each step of an import keeps the invariant.                             *)

\* A stage of the import of i after which the directory's files are whole.
LEMMA StageKeeps ==
    ASSUME LibInv, NEW i \in Importers, NEW p \in Stages, Goes(i, p),
           imp[i].pc \in Stages,
           Parses(imp[i].source),
           p \in {"sideWrite", "sideFlush", "sideRename"} => imp[i].source \in Accompanied,
           temps' \subseteq Temp,
           \A t \in temps' : t.owner # i => t \in temps,
           \A t \in temps' : t.owner = i =>
               /\ p \notin {"read", "temp", "sidecar"}
               /\ p \in {"rename", "sideRename"} => t.file = imp[i].source,
           binary' \in [Voices -> Contents \cup {NoFile}],
           ServedWhole',
           UNCHANGED <<sidecar, audit, imports, crashes, stuck, removals>>
    PROVE  LibInv'
<1> USE DEF LibInv
<1>1. /\ imp' \in [Importers -> Process]
      /\ imp'[i] \in Run /\ imp[i] \in Run
      /\ imp'[i].pc = p /\ imp'[i].source = imp[i].source
      /\ \A j \in Importers \ {i} : imp'[j] = imp[j]
  BY GoesOn
<1>2. LibTypeOK'
  BY <1>1 DEF LibTypeOK, Process
<1>3. SourcesChecked'
  BY <1>1 DEF SourcesChecked
<1>4. RenamesWhole'
  BY <1>1 DEF RenamesWhole
<1>5. TempsReclaimed'
  <2> SUFFICES ASSUME NEW t \in temps'
               PROVE  IF t.owner = Nobody THEN crashes > 0 \/ stuck > 0
                      ELSE imp'[t.owner].pc \in Stages \ {"read", "temp", "sidecar"}
    BY DEF TempsReclaimed
  <2>1. CASE t.owner = i
    BY <1>1, <2>1, LibraryAssumption
  <2>2. CASE t.owner # i
    <3>1. t \in temps /\ t \in Temp
      BY <2>2
    <3>2. t.owner \in Importers \cup {Nobody}
      BY <3>1 DEF Temp
    <3> QED  BY <1>1, <2>2, <3>1, <3>2 DEF TempsReclaimed
  <2> QED  BY <2>1, <2>2
<1> QED  BY <1>2, <1>3, <1>4, <1>5

\* The import of i is over, its temporary file gone or given to nobody by a
\* crash or a clean-up that failed, and the directory's files still whole.
LEMMA EndKeeps ==
    ASSUME LibInv, NEW i \in Importers, Ends(i),
           temps' \subseteq Temp,
           \A t \in temps' : t.owner # i,
           \A t \in temps' : t \in temps \/ (t.owner = Nobody /\ (crashes' > 0 \/ stuck' > 0)),
           crashes' \in {crashes, crashes + 1}, crashes' \in 0..MaxCrashes,
           stuck' \in {stuck, stuck + 1}, stuck' \in 0..MaxStuck,
           binary' \in [Voices -> Contents \cup {NoFile}],
           sidecar' \in [Voices -> Contents \cup {NoFile}],
           ServedWhole',
           UNCHANGED <<audit, imports, removals>>
    PROVE  LibInv'
<1> USE DEF LibInv
<1>1. /\ imp' \in [Importers -> Process]
      /\ imp'[i].pc = "idle"
      /\ \A j \in Importers \ {i} : imp'[j] = imp[j]
  BY EndsAlone
<1>2. LibTypeOK'
  BY <1>1 DEF LibTypeOK, Process
<1>3. SourcesChecked'
  BY <1>1 DEF SourcesChecked, Stages
<1>4. Nobody \notin Importers
  BY LibraryAssumption
<1>5. RenamesWhole'
  BY <1>1, <1>4 DEF RenamesWhole
<1>6. TempsReclaimed'
  <2> SUFFICES ASSUME NEW t \in temps'
               PROVE  IF t.owner = Nobody THEN crashes' > 0 \/ stuck' > 0
                      ELSE imp'[t.owner].pc \in Stages \ {"read", "temp", "sidecar"}
    BY DEF TempsReclaimed
  <2>1. t \in Temp /\ t.owner # i
    OBVIOUS
  <2>2. t.owner \in Importers \cup {Nobody}
    BY <2>1 DEF Temp
  <2>3. crashes \in Nat /\ crashes' >= crashes /\ stuck \in Nat /\ stuck' >= stuck
    BY LibraryAssumption DEF LibTypeOK
  <2> QED  BY <1>1, <2>1, <2>2, <2>3 DEF TempsReclaimed
<1> QED  BY <1>2, <1>3, <1>5, <1>6

\* What an importer has read can be in a temporary file, whole or torn.
LEMMA SourceIsContents ==
    ASSUME LibTypeOK, NEW i \in Importers, imp[i].pc \in Stages
    PROVE  /\ imp[i] \in Run /\ imp[i].source \in Sources /\ imp[i].voice \in Voices
           /\ imp[i].source \in Contents /\ Torn(imp[i].source) \in Contents
<1>1. imp[i] \in Run
  BY DEF LibTypeOK, Idle, Stages
<1> QED  BY <1>1 DEF Run, Contents

\* The directory stays whole when its files stay as they are.
LEMMA ServedStill ==
    ASSUME LibInv, UNCHANGED <<binary, sidecar>>
    PROVE  ServedWhole' /\ binary' \in [Voices -> Contents \cup {NoFile}]
                        /\ sidecar' \in [Voices -> Contents \cup {NoFile}]
BY DEF LibInv, LibTypeOK, ServedWhole

\* An import that fails, whether its clean-up does or not.
LEMMA FailureKeeps ==
    ASSUME LibInv, NEW i \in Importers, Ends(i), CleansUp(i),
           UNCHANGED <<binary, sidecar, audit, imports, crashes, removals>>
    PROVE  LibInv'
<1> USE DEF LibInv
<1>1. CASE Unlinks(i) /\ UNCHANGED stuck
  BY <1>1, EndKeeps, ServedStill, TempUnlinked DEF LibTypeOK
<1>2. CASE stuck < MaxStuck /\ stuck' = stuck + 1 /\ Abandons(i)
  <2>1. stuck' \in 0..MaxStuck /\ stuck' > 0
    BY <1>2, LibraryAssumption DEF LibTypeOK
  <2> QED  BY <1>2, <2>1, EndKeeps, ServedStill, TempAbandoned DEF LibTypeOK
<1> QED  BY <1>1, <1>2 DEF CleansUp

LEMMA BinaryStages ==
    ASSUME LibInv, NEW i \in Importers,
           SourceRead(i) \/ TempMade(i) \/ Written(i) \/ Flushed(i)
    PROVE  LibInv'
<1> USE DEF LibInv
<1>1. CASE SourceRead(i) /\ Parses(imp[i].source)
  <2>1. Goes(i, "temp") /\ imp[i].pc = "read" /\ UNCHANGED temps
    BY <1>1 DEF SourceRead, At
  <2>2. \A t \in temps : t.owner # i
    BY <2>1, LibraryAssumption DEF TempsReclaimed
  <2> QED  BY <1>1, <2>1, <2>2, StageKeeps, ServedStill DEF SourceRead, Stages, LibTypeOK
<1>2. CASE SourceRead(i) /\ ~Parses(imp[i].source)
  <2>1. Ends(i) /\ imp[i].pc = "read" /\ UNCHANGED temps
    BY <1>2 DEF SourceRead, At
  <2>2. \A t \in temps : t.owner # i
    BY <2>1, LibraryAssumption DEF TempsReclaimed
  <2> QED  BY <1>2, <2>1, <2>2, EndKeeps, ServedStill DEF SourceRead, LibTypeOK
<1>3. CASE TempMade(i)
  <2>1. Goes(i, "write") /\ imp[i].pc = "temp" /\ TempIs(i, "binary", NoFile)
    BY <1>3 DEF TempMade, At
  <2>2. Parses(imp[i].source)
    BY <2>1 DEF SourcesChecked, Stages
  <2> QED  BY <1>3, <2>1, <2>2, StageKeeps, ServedStill, TempReplaced DEF TempMade, Stages
<1>4. CASE Written(i)
  <2>1. Goes(i, "flush") /\ imp[i].pc = "write" /\ TempIs(i, "binary", Torn(imp[i].source))
    BY <1>4 DEF Written, At
  <2>2. Parses(imp[i].source)
    BY <2>1 DEF SourcesChecked, Stages
  <2>3. Torn(imp[i].source) \in Contents
    BY <2>1, SourceIsContents DEF Stages
  <2> QED  BY <1>4, <2>1, <2>2, <2>3, StageKeeps, ServedStill, TempReplaced DEF Written, Stages
<1>5. CASE Flushed(i)
  <2>1. Goes(i, "rename") /\ imp[i].pc = "flush" /\ TempIs(i, "binary", imp[i].source)
    BY <1>5 DEF Flushed, At
  <2>2. Parses(imp[i].source)
    BY <2>1 DEF SourcesChecked, Stages
  <2>3. imp[i].source \in Contents
    BY <2>1, SourceIsContents DEF Stages
  <2> QED  BY <1>5, <2>1, <2>2, <2>3, StageKeeps, ServedStill, TempReplaced DEF Flushed, Stages
<1> QED  BY <1>1, <1>2, <1>3, <1>4, <1>5

LEMMA BinaryEnds ==
    ASSUME LibInv, NEW i \in Importers, Renamed(i) \/ ImportFails(i)
    PROVE  LibInv'
<1> USE DEF LibInv
<1>1. CASE Renamed(i)
  <2>1. Goes(i, "sidecar") /\ imp[i].pc = "rename" /\ Unlinks(i)
    BY <1>1 DEF Renamed, At
  <2>2. Parses(imp[i].source) /\ imp[i].source \in Contents /\ imp[i].voice \in Voices
    BY <2>1, SourceIsContents DEF SourcesChecked, Stages
  <2>3. \A t \in TempsOf(i) : t.file = imp[i].source
    BY <2>1 DEF RenamesWhole, TempsOf
  <2>4. binary' = [binary EXCEPT ![imp[i].voice] = imp[i].source]
    BY <1>1, <2>3 DEF Renamed
  <2>5. binary' \in [Voices -> Contents \cup {NoFile}]
    BY <2>2, <2>4 DEF LibTypeOK
  <2>6. sidecar' = sidecar
    BY <1>1 DEF Renamed
  <2>7. ServedWhole'
    <3> SUFFICES ASSUME NEW v \in Voices
                 PROVE  /\ binary'[v] # NoFile => Parses(binary'[v])
                        /\ sidecar'[v] # NoFile => sidecar'[v] \in Accompanied
      BY DEF ServedWhole
    <3>1. binary'[v] = IF v = imp[i].voice THEN imp[i].source ELSE binary[v]
      BY <2>2, <2>4 DEF LibTypeOK
    <3> QED  BY <2>2, <2>6, <3>1 DEF ServedWhole
  <2> QED  BY <1>1, <2>1, <2>2, <2>5, <2>7, StageKeeps, TempUnlinked DEF Renamed, Stages
<1>2. CASE ImportFails(i)
  <2>1. Ends(i) /\ CleansUp(i) /\ UNCHANGED <<binary, sidecar, audit, imports, crashes, removals>>
    BY <1>2 DEF ImportFails
  <2> QED  BY <2>1, FailureKeeps
<1> QED  BY <1>1, <1>2

LEMMA SidecarStages ==
    ASSUME LibInv, NEW i \in Importers, SidecarFound(i) \/ SidecarWritten(i)
    PROVE  LibInv'
<1> USE DEF LibInv
<1>1. CASE SidecarFound(i) /\ imp[i].source \in Accompanied
  <2>1. Goes(i, "sideWrite") /\ imp[i].pc = "sidecar" /\ TempIs(i, "sidecar", NoFile)
    BY <1>1 DEF SidecarFound, At
  <2>2. Parses(imp[i].source)
    BY <2>1 DEF SourcesChecked, Stages
  <2> QED  BY <1>1, <2>1, <2>2, StageKeeps, ServedStill, TempReplaced DEF SidecarFound, Stages
<1>2. CASE SidecarFound(i) /\ imp[i].source \notin Accompanied
  <2>1. Ends(i) /\ imp[i].pc = "sidecar" /\ UNCHANGED temps
    BY <1>2 DEF SidecarFound, At
  <2>2. \A t \in temps : t.owner # i
    BY <2>1, LibraryAssumption DEF TempsReclaimed
  <2> QED  BY <1>2, <2>1, <2>2, EndKeeps, ServedStill DEF SidecarFound, LibTypeOK
<1>3. CASE At(i, "sideWrite") /\ SidecarWritten(i)
  <2>1. Goes(i, "sideFlush") /\ imp[i].pc = "sideWrite" /\ TempIs(i, "sidecar", Torn(imp[i].source))
    BY <1>3 DEF SidecarWritten, At
  <2>2. Parses(imp[i].source) /\ imp[i].source \in Accompanied
    BY <2>1 DEF SourcesChecked, Stages
  <2>3. Torn(imp[i].source) \in Contents
    BY <2>1, SourceIsContents DEF Stages
  <2> QED  BY <1>3, <2>1, <2>2, <2>3, StageKeeps, ServedStill, TempReplaced DEF SidecarWritten, Stages
<1>4. CASE At(i, "sideFlush") /\ SidecarWritten(i)
  <2>1. Goes(i, "sideRename") /\ imp[i].pc = "sideFlush" /\ TempIs(i, "sidecar", imp[i].source)
    BY <1>4 DEF SidecarWritten, At
  <2>2. Parses(imp[i].source) /\ imp[i].source \in Accompanied
    BY <2>1 DEF SourcesChecked, Stages
  <2>3. imp[i].source \in Contents
    BY <2>1, SourceIsContents DEF Stages
  <2> QED  BY <1>4, <2>1, <2>2, <2>3, StageKeeps, ServedStill, TempReplaced DEF SidecarWritten, Stages
<1> QED  BY <1>1, <1>2, <1>3, <1>4 DEF SidecarWritten

LEMMA SidecarEnds ==
    ASSUME LibInv, NEW i \in Importers, SidecarRenamed(i) \/ SidecarFails(i)
    PROVE  LibInv'
<1> USE DEF LibInv
<1>1. CASE SidecarRenamed(i)
  <2>1. Ends(i) /\ imp[i].pc = "sideRename" /\ Unlinks(i) /\ binary' = binary
    BY <1>1 DEF SidecarRenamed, At
  <2>2. imp[i].source \in Accompanied /\ imp[i].source \in Contents /\ imp[i].voice \in Voices
    BY <2>1, SourceIsContents DEF SourcesChecked, Stages
  <2>3. \A t \in TempsOf(i) : t.file = imp[i].source
    BY <2>1 DEF RenamesWhole, TempsOf
  <2>4. sidecar' = [sidecar EXCEPT ![imp[i].voice] = imp[i].source]
    BY <1>1, <2>3 DEF SidecarRenamed
  <2>5. /\ sidecar' \in [Voices -> Contents \cup {NoFile}]
        /\ binary' \in [Voices -> Contents \cup {NoFile}]
    BY <2>1, <2>2, <2>4 DEF LibTypeOK
  <2>6. ServedWhole'
    <3> SUFFICES ASSUME NEW v \in Voices
                 PROVE  /\ binary'[v] # NoFile => Parses(binary'[v])
                        /\ sidecar'[v] # NoFile => sidecar'[v] \in Accompanied
      BY DEF ServedWhole
    <3>1. sidecar'[v] = IF v = imp[i].voice THEN imp[i].source ELSE sidecar[v]
      BY <2>2, <2>4 DEF LibTypeOK
    <3> QED  BY <2>1, <2>2, <3>1 DEF ServedWhole
  <2> QED  BY <1>1, <2>1, <2>5, <2>6, EndKeeps, TempUnlinked DEF SidecarRenamed, LibTypeOK
<1>2. CASE SidecarFails(i)
  <2>1. Ends(i) /\ CleansUp(i) /\ UNCHANGED <<binary, sidecar, audit, imports, crashes, removals>>
    BY <1>2 DEF SidecarFails
  <2> QED  BY <2>1, FailureKeeps
<1> QED  BY <1>1, <1>2

\* A killed import's temporary file belongs to nobody from then on.
LEMMA CrashKeeps ==
    ASSUME LibInv, NEW i \in Importers, Crash(i)
    PROVE  LibInv'
<1> USE DEF LibInv
<1>1. Ends(i) /\ Abandons(i)
  BY DEF Crash
<1>2. crashes' = crashes + 1 /\ crashes' \in 0..MaxCrashes /\ crashes' > 0
  BY LibraryAssumption DEF Crash, LibTypeOK
<1>3. stuck' = stuck /\ stuck' \in 0..MaxStuck
  BY DEF Crash, LibTypeOK
<1> QED  BY <1>1, <1>2, <1>3, EndKeeps, ServedStill, TempAbandoned DEF Crash

LEMMA StartKeeps ==
    ASSUME LibInv, NEW i \in Importers, NEW v \in Voices, NEW s \in Sources,
           NEW force \in BOOLEAN, ImportStarts(i, v, s, force)
    PROVE  LibInv'
<1> USE DEF LibInv
<1> DEFINE run == [pc |-> "read", voice |-> v, source |-> s]
<1>1. imp' = [imp EXCEPT ![i] = run] /\ imp[i].pc = "idle"
  BY DEF ImportStarts, At
<1>2. run \in Run /\ run.pc = "read"
  BY DEF Run, Stages
<1> HIDE DEF run
<1>3. /\ imp'[i].pc = "read"
      /\ \A j \in Importers \ {i} : imp'[j] = imp[j]
      /\ imp' \in [Importers -> {Idle} \cup Run]
  BY <1>1, <1>2 DEF LibTypeOK
<1>4. imports' \in 0..MaxImports
  BY LibraryAssumption DEF ImportStarts, LibTypeOK
<1>5. UNCHANGED <<binary, sidecar, temps, audit, crashes, stuck, removals>>
  BY DEF ImportStarts
<1>6. LibTypeOK'
  BY <1>3, <1>4, <1>5 DEF LibTypeOK
<1>7. SourcesChecked'
  BY <1>3 DEF SourcesChecked
<1>8. \A t \in temps : t.owner # i /\ t.owner \in Importers \cup {Nobody}
  BY <1>1, LibraryAssumption DEF TempsReclaimed, Stages, LibTypeOK, Temp
<1>9. RenamesWhole'
  BY <1>3, <1>5, <1>8 DEF RenamesWhole
<1>10. TempsReclaimed'
  BY <1>3, <1>5, <1>8 DEF TempsReclaimed
<1> QED  BY <1>5, <1>6, <1>7, <1>9, <1>10, ServedStill

\* The operator's removals and the audit.
LEMMA OthersKeep ==
    ASSUME LibInv, (\E v \in Voices : Removed(v) \/ AuditReads(v)) \/ AuditStarts \/ AuditEnds
    PROVE  LibInv'
<1> USE DEF LibInv
<1>1. CASE \E v \in Voices : Removed(v)
  <2>1. PICK v \in Voices : Removed(v)
    BY <1>1
  <2>2. UNCHANGED <<temps, imp, audit, imports, crashes, stuck>> /\ removals' \in 0..MaxRemovals
    BY <2>1, LibraryAssumption DEF Removed, LibTypeOK
  <2>3. /\ binary' \in [Voices -> Contents \cup {NoFile}]
        /\ sidecar' \in [Voices -> Contents \cup {NoFile}]
        /\ \A w \in Voices : /\ binary'[w] \in {binary[w], NoFile}
                             /\ sidecar'[w] \in {sidecar[w], NoFile}
    BY <2>1 DEF Removed, LibTypeOK
  <2>4. LibTypeOK'
    BY <2>2, <2>3 DEF LibTypeOK
  <2>5. ServedWhole'
    BY <2>3 DEF ServedWhole
  <2> QED  BY <2>2, <2>4, <2>5 DEF SourcesChecked, RenamesWhole, TempsReclaimed
<1>2. CASE (\E v \in Voices : AuditReads(v)) \/ AuditStarts \/ AuditEnds
  <2>1. UNCHANGED <<binary, sidecar, temps, imp, imports, crashes, stuck, removals>>
    BY <1>2 DEF AuditReads, AuditStarts, AuditEnds
  <2>2. audit' \in [pc : {"idle", "reading"}, todo : SUBSET Voices, valid : BOOLEAN]
    <3> DEFINE Audits == [pc : {"idle", "reading"}, todo : SUBSET Voices, valid : BOOLEAN]
    <3>1. CASE \E v \in Voices : AuditReads(v)
      <4>1. PICK v \in Voices : AuditReads(v)
        BY <3>1
      <4> DEFINE well == audit.valid /\ AuditedWell(v)
      <4>2. well \in BOOLEAN
        OBVIOUS
      <4>3. audit' = [audit EXCEPT !.todo = audit.todo \ {v}, !.valid = well]
        BY <4>1 DEF AuditReads
      <4> HIDE DEF well
      <4>4. audit \in Audits
        BY DEF LibTypeOK
      <4> QED  BY <4>2, <4>3, <4>4
    <3>2. CASE AuditStarts
      <4> DEFINE clean == \A t \in temps : t.kind # "binary"
      <4>1. clean \in BOOLEAN
        OBVIOUS
      <4>2. audit' = [pc |-> "reading", todo |-> {v \in Voices : binary[v] # NoFile}, valid |-> clean]
        BY <3>2 DEF AuditStarts
      <4> HIDE DEF clean
      <4> QED  BY <4>1, <4>2
    <3>3. CASE AuditEnds
      BY <3>3 DEF AuditEnds, NoAudit
    <3> QED  BY <1>2, <3>1, <3>2, <3>3
  <2>3. LibTypeOK'
    BY <2>1, <2>2 DEF LibTypeOK
  <2> QED  BY <2>1, <2>3 DEF SourcesChecked, RenamesWhole, TempsReclaimed, ServedWhole
<1> QED  BY <1>1, <1>2

LEMMA LibStart == LibInit => LibInv
<1> SUFFICES ASSUME LibInit PROVE LibInv
  OBVIOUS
<1>1. LibTypeOK
  BY LibraryAssumption DEF LibInit, LibTypeOK, NoAudit
<1>2. \A i \in Importers : imp[i].pc = "idle"
  BY DEF LibInit, Idle
<1> QED  BY <1>1, <1>2 DEF LibInv, LibInit, SourcesChecked, RenamesWhole, TempsReclaimed, ServedWhole, Stages

LEMMA LibKeeps == LibInv /\ [LibNext]_libVars => LibInv'
<1> SUFFICES ASSUME LibInv, [LibNext]_libVars PROVE LibInv'
  OBVIOUS
<1>1. CASE \E i \in Importers : ImportStep(i)
  <2>1. PICK i \in Importers : ImportStep(i)
    BY <1>1
  <2> QED  BY <2>1, StartKeeps, BinaryStages, BinaryEnds, SidecarStages, SidecarEnds, CrashKeeps
           DEF ImportStep
<1>2. CASE (\E v \in Voices : Removed(v) \/ AuditReads(v)) \/ AuditStarts \/ AuditEnds
  BY <1>2, OthersKeep
<1>3. CASE UNCHANGED libVars
  BY <1>3 DEF libVars, LibInv, LibTypeOK, SourcesChecked, RenamesWhole, TempsReclaimed, ServedWhole, TempsOf
<1> QED  BY <1>1, <1>2, <1>3 DEF LibNext

-----------------------------------------------------------------------------
(* The voice of a session.                                                 *)

Spoke == Seq([voice : Voices \cup {NoVoice}, params : SUBSET {"generation", "stream", "stride"},
              context : Int \cup {NoContext}])

\* The next request would be made in the voice of every one that had a voice,
\* and a session without a voice has no default to fall back on.
VoiceKept ==
    /\ voice \in Voices \cup {NoVoice}
    /\ sent \in Spoke
    /\ \A k \in 1..Len(sent) : sent[k].voice # NoVoice => sent[k].voice = Request(voice).voice
    /\ conn = "streaming" \/ sent # <<>> => (voice = NoVoice => DefaultVoice = NoVoice)

LEMMA RequestsTyped ==
    ASSUME NEW v \in Voices \cup {NoVoice}
    PROVE  /\ Request(v) \in [voice : Voices \cup {NoVoice},
                              params : SUBSET {"generation", "stream", "stride"},
                              context : Int \cup {NoContext}]
           /\ Request(v).voice = IF v = NoVoice THEN DefaultVoice ELSE v
BY RequestAssumption DEF Request

\* A request in the session's voice keeps both halves of the argument.
LEMMA PhraseKeeps ==
    ASSUME VoiceKept, OneVoicePerSession, conn = "streaming", Phrase(sent, voice), voice' = voice
    PROVE  VoiceKept' /\ OneVoicePerSession'
<1> DEFINE r == Request(voice)
<1>1. r \in [voice : Voices \cup {NoVoice}, params : SUBSET {"generation", "stream", "stride"},
             context : Int \cup {NoContext}]
  BY RequestsTyped DEF VoiceKept
<1>2. sent' = Append(sent, r)
  BY DEF Phrase
<1> HIDE DEF r
<1>3. /\ sent' \in Spoke /\ Len(sent') = Len(sent) + 1 /\ Len(sent) \in Nat
      /\ \A k \in 1..Len(sent) : sent'[k] = sent[k]
      /\ sent'[Len(sent) + 1] = r
  BY <1>1, <1>2 DEF VoiceKept, Spoke
<1>4. r = Request(voice) /\ Request(voice)' = Request(voice)
  BY DEF r, Request
<1>5. VoiceKept'
  BY <1>3, <1>4 DEF VoiceKept
<1>6. OneVoicePerSession'
  BY <1>3, <1>4 DEF VoiceKept, OneVoicePerSession
<1> QED  BY <1>5, <1>6

LEMMA ConnKeeps ==
    ASSUME VoiceKept, OneVoicePerSession, ConnStep
    PROVE  VoiceKept' /\ OneVoicePerSession'
<1>0. \A n \in Names : Resolves(n) => Wanted(n) \in Voices \cup {NoVoice}
  BY DEF Resolves, Discovered
<1>1. ASSUME Drops PROVE VoiceKept' /\ OneVoicePerSession'
  BY <1>1 DEF Drops, VoiceKept, OneVoicePerSession, Spoke
<1>2. ASSUME UNCHANGED <<sent, voice>>, conn' = "streaming" => conn = "streaming"
      PROVE  VoiceKept' /\ OneVoicePerSession'
  BY <1>2 DEF VoiceKept, OneVoicePerSession, Request
<1>3. CASE Described \/ Chunk
  BY <1>1, <1>2, <1>3 DEF Described, Chunk, reqVars
<1>4. CASE PhraseSpoken
  BY <1>4, PhraseKeeps DEF PhraseSpoken
<1>5. CASE Stop
  BY <1>2, <1>5, PhraseKeeps DEF Stop
<1>6. ASSUME NEW name \in Names, StreamStarts(name)
      PROVE  VoiceKept' /\ OneVoicePerSession'
  <2>1. CASE Resolves(name)
    <3>1. voice' = Wanted(name) /\ sent' = <<>>
      BY <1>6, <2>1 DEF StreamStarts
    <3>2. voice' = NoVoice => DefaultVoice = NoVoice
      BY <3>1 DEF Wanted
    <3> QED  BY <1>0, <2>1, <3>1, <3>2 DEF VoiceKept, OneVoicePerSession, Spoke
  <2> QED  BY <1>1, <1>6, <2>1 DEF StreamStarts
<1>7. ASSUME NEW name \in Names, CompatArrives(name)
      PROVE  VoiceKept' /\ OneVoicePerSession'
  <2>1. CASE Resolves(name) /\ Compatible(name)
    <3>1. /\ voice' = IF Wanted(name) = NoVoice THEN voice ELSE Wanted(name)
          /\ UNCHANGED <<conn, sent>> /\ conn = "streaming"
      BY <1>7, <2>1 DEF CompatArrives
    <3>2. CASE voice' = voice
      BY <1>2, <3>1, <3>2
    <3>3. CASE voice' # voice
      <4>1. voice = NoVoice /\ DefaultVoice = NoVoice /\ voice' \in Voices
        BY <1>0, <2>1, <3>1, <3>3 DEF Compatible, VoiceKept
      <4>2. Request(voice).voice = NoVoice
        BY <4>1, RequestsTyped
      <4>3. \A k \in 1..Len(sent) : sent[k].voice = NoVoice
        BY <4>2 DEF VoiceKept
      <4> QED  BY <3>1, <4>1, <4>3 DEF VoiceKept, OneVoicePerSession
    <3> QED  BY <3>2, <3>3
  <2> QED  BY <1>1, <1>7, <2>1 DEF CompatArrives
<1>8. ASSUME NEW name \in Names, Legacy(name)
      PROVE  VoiceKept' /\ OneVoicePerSession'
  <2>1. CASE Resolves(name)
    <3>1. voice' = Wanted(name) /\ sent' = Append(<<>>, Request(Wanted(name)))
      BY <1>8, <2>1 DEF Legacy, Phrase
    <3>2. sent' = <<Request(voice')>> /\ voice' \in Voices \cup {NoVoice}
      BY <1>0, <2>1, <3>1
    <3>3. voice' = NoVoice => DefaultVoice = NoVoice
      BY <3>1 DEF Wanted
    <3>4. sent' \in Spoke /\ Len(sent') = 1 /\ sent'[1] = Request(voice')
      BY <3>2, RequestsTyped DEF Spoke
    <3>5. Request(voice)' = Request(voice')
      BY DEF Request
    <3> QED  BY <3>2, <3>3, <3>4, <3>5 DEF VoiceKept, OneVoicePerSession
  <2> QED  BY <1>1, <1>8, <2>1 DEF Legacy
<1> QED  BY <1>3, <1>4, <1>5, <1>6, <1>7, <1>8 DEF ConnStep

-----------------------------------------------------------------------------
(* The theorems.                                                           *)

Inv == LibInv /\ VoiceKept /\ OneVoicePerSession

LEMMA Inductive == Spec => []Inv
<1>1. Init => Inv
  <2> SUFFICES ASSUME Init PROVE Inv
    OBVIOUS
  <2>1. LibInv
    BY LibStart DEF Init
  <2>2. VoiceKept /\ OneVoicePerSession
    BY DEF Init, VoiceKept, OneVoicePerSession, Spoke
  <2> QED  BY <2>1, <2>2 DEF Inv
<1>2. Inv /\ [Next]_vars => Inv'
  <2> SUFFICES ASSUME Inv, [Next]_vars PROVE Inv'
    OBVIOUS
  <2>1. CASE LibNext /\ UNCHANGED reqVars
    <3>1. LibInv'
      BY <2>1, LibKeeps DEF Inv
    <3> QED  BY <2>1, <3>1 DEF Inv, reqVars, VoiceKept, OneVoicePerSession, Request
  <2>2. CASE ConnStep
    <3>1. UNCHANGED libVars
      BY <2>2 DEF ConnStep, Described, Chunk, PhraseSpoken, Stop, StreamStarts, CompatArrives,
                  Legacy
    <3>2. LibInv'
      BY <3>1, LibKeeps DEF Inv
    <3> QED  BY <2>2, <3>2, ConnKeeps DEF Inv
  <2>3. CASE UNCHANGED vars
    <3>1. LibInv'
      BY <2>3, LibKeeps DEF Inv, vars
    <3> QED  BY <2>3, <3>1 DEF Inv, vars, reqVars, VoiceKept, OneVoicePerSession, Request
  <2> QED  BY <2>1, <2>2, <2>3 DEF Next
<1> QED  BY <1>1, <1>2, PTL DEF Spec

\* Whatever number of imports overlap, fail or are killed, every profile and
\* every sidecar that can be discovered is complete.
THEOREM ServedWholeHolds == Spec => []ServedWhole
<1>1. Inv => ServedWhole
  BY DEF Inv, LibInv
<1> QED  BY <1>1, Inductive, PTL

\* Only a killed import, or one whose clean-up failed as well, leaves a
\* temporary file behind.
THEOREM TempsReclaimedHolds == Spec => []TempsReclaimed
<1>1. Inv => TempsReclaimed
  BY DEF Inv, LibInv
<1> QED  BY <1>1, Inductive, PTL

\* No session changes from one profile's voice to another or to none.
THEOREM OneVoicePerSessionHolds == Spec => []OneVoicePerSession
<1>1. Inv => OneVoicePerSession
  BY DEF Inv
<1> QED  BY <1>1, Inductive, PTL
================================================================================
