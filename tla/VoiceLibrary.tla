----------------------------- MODULE VoiceLibrary -----------------------------
(***************************************************************************)
(* The directory of saved voice profiles and the operator's commands on    *)
(* it: app/voice_cli.py (import, audit, licenses), the parser of           *)
(* app/voice_profile.py and the scan of app/voice_discovery.py.  Every     *)
(* command is a process of its own and nothing locks the directory: an     *)
(* import is a sequence of file-system calls that other imports, audits    *)
(* and the server's scans interleave with, and a crash may cut it short    *)
(* anywhere.                                                               *)
(***************************************************************************)
EXTENDS Integers, FiniteSets

CONSTANTS Voices,        \* voice ids the safe-name pattern accepts
          Fold(_),       \* voice id -> its lower-case form
          Sources,       \* the profiles an operator may import
          Accompanied,   \* those with a sidecar beside them, whatever is in it
          Documented,    \* those whose sidecar has a licence and an attribution
          Importers,     \* processes that run the import command
          MaxImports,    \* bound: imports in a behaviour
          MaxCrashes,    \* bound: imports killed half-way
          MaxStuck,      \* bound: clean-ups that fail
          MaxRemovals    \* bound: voices the operator deletes

NoFile == [none |-> TRUE]
Nobody == "nobody"

ASSUME LibraryAssumption ==
    /\ Documented \subseteq Accompanied /\ Accompanied \subseteq Sources /\ Nobody \notin Importers
    /\ \A b \in {MaxImports, MaxCrashes, MaxStuck, MaxRemovals} : b \in Nat

----------------------------------------------------------------------------
(* The binary format.  A file is the list of what the parser looks at;     *)
(* sizes are scaled down, the order of magnitude between them is kept.     *)

HeaderSize    == 4
MaxTranscript == 3
MaxCodes      == 8
CodeWidth     == 4

\* parse_s2voice raises no VoiceProfileError on the file.
Parses(f) ==
    /\ f.length >= HeaderSize
    /\ f.magic /\ f.version = 1
    /\ \A n \in {f.codebooks, f.rate, f.codebookSize} : n >= 0
    /\ f.transcript \in 1..MaxTranscript
    /\ f.codes <= MaxCodes
    /\ f.length = HeaderSize + f.transcript + f.codes
    /\ f.terminated /\ f.utf8
    /\ f.codes % CodeWidth = 0

\* What a write that has not finished leaves in a file.
Torn(f) == [f EXCEPT !.length = @ - 1]

Contents == Sources \cup {Torn(f) : f \in Sources}

----------------------------------------------------------------------------
VARIABLES binary,    \* voice id -> the file <id>.s2voice
          sidecar,   \* voice id -> the source whose sidecar is <id>.s2voice.json
          temps,     \* temporary files of imports in the directory
          imp,       \* importer -> its process
          audit,     \* the audit command
          imports, crashes, stuck, removals

libVars == <<binary, sidecar, temps, imp, audit, imports, crashes, stuck, removals>>

Idle   == [pc |-> "idle"]
Stages == {"read", "temp", "write", "flush", "rename",
           "sidecar", "sideWrite", "sideFlush", "sideRename"}
Run    == [pc : Stages, voice : Voices, source : Sources]
Temp   == [owner : Importers \cup {Nobody}, kind : {"binary", "sidecar"},
           file : Contents \cup {NoFile}]
NoAudit == [pc |-> "idle", todo |-> {}, valid |-> FALSE]

LibInit ==
    /\ binary = [v \in Voices |-> NoFile]
    /\ sidecar = [v \in Voices |-> NoFile]
    /\ temps = {}
    /\ imp = [i \in Importers |-> Idle]
    /\ audit = NoAudit
    /\ imports = 0 /\ crashes = 0 /\ stuck = 0 /\ removals = 0

At(i, pc)   == imp[i].pc = pc
Goes(i, pc) == imp' = [imp EXCEPT ![i].pc = pc]
Ends(i)     == imp' = [imp EXCEPT ![i] = Idle]

TempsOf(i)      == {t \in temps : t.owner = i}
TempIs(i, k, f) == temps' = (temps \ TempsOf(i)) \cup
                            {[owner |-> i, kind |-> k, file |-> f]}
Unlinks(i)      == temps' = temps \ TempsOf(i)
Abandons(i)     == temps' = (temps \ TempsOf(i)) \cup {[t EXCEPT !.owner = Nobody] : t \in TempsOf(i)}

\* What an except clause does about the temporary file: unlink() may fail as
\* the call before it did, and that is swallowed.
CleansUp(i) ==
    \/ Unlinks(i) /\ UNCHANGED stuck
    \/ stuck < MaxStuck /\ stuck' = stuck + 1 /\ Abandons(i)

----------------------------------------------------------------------------
(* cmd_import, one file-system call at a time.                             *)

\* The collision check: an existing profile is replaced only on request.
ImportStarts(i, v, s, force) ==
    /\ At(i, "idle") /\ imports < MaxImports
    /\ force \/ binary[v] = NoFile
    /\ imp' = [imp EXCEPT ![i] = [pc |-> "read", voice |-> v, source |-> s]]
    /\ imports' = imports + 1
    /\ UNCHANGED <<binary, sidecar, temps, audit, crashes, stuck, removals>>

SourceRead(i) ==
    /\ At(i, "read")
    /\ IF Parses(imp[i].source) THEN Goes(i, "temp") ELSE Ends(i)
    /\ UNCHANGED <<binary, sidecar, temps, audit, imports, crashes, stuck, removals>>

TempMade(i) ==
    /\ At(i, "temp")
    /\ Goes(i, "write")
    /\ TempIs(i, "binary", NoFile)
    /\ UNCHANGED <<binary, sidecar, audit, imports, crashes, stuck, removals>>

\* A plausible simplification of Written: the profile is written in place.
WrittenInPlace(i) ==
    /\ At(i, "write")
    /\ Goes(i, "flush")
    /\ binary' = [binary EXCEPT ![imp[i].voice] = Torn(imp[i].source)]
    /\ UNCHANGED <<sidecar, temps, audit, imports, crashes, stuck, removals>>

Written(i) ==
    /\ At(i, "write")
    /\ Goes(i, "flush")
    /\ TempIs(i, "binary", Torn(imp[i].source))
    /\ UNCHANGED <<binary, sidecar, audit, imports, crashes, stuck, removals>>

Flushed(i) ==
    /\ At(i, "flush")
    /\ Goes(i, "rename")
    /\ TempIs(i, "binary", imp[i].source)
    /\ UNCHANGED <<binary, sidecar, audit, imports, crashes, stuck, removals>>

Renamed(i) ==
    /\ At(i, "rename")
    /\ \E t \in TempsOf(i) : binary' = [binary EXCEPT ![imp[i].voice] = t.file]
    /\ Unlinks(i)
    /\ Goes(i, "sidecar")
    /\ UNCHANGED <<sidecar, audit, imports, crashes, stuck, removals>>

\* A plausible bug: the handler forgets it.
ImportFailsLeavingTemp(i) ==
    /\ imp[i].pc \in {"temp", "write", "flush", "rename"}
    /\ Ends(i)
    /\ UNCHANGED <<binary, sidecar, temps, audit, imports, crashes, stuck, removals>>

\* An OSError before the rename.
ImportFails(i) ==
    /\ imp[i].pc \in {"temp", "write", "flush", "rename"}
    /\ Ends(i)
    /\ CleansUp(i)
    /\ UNCHANGED <<binary, sidecar, audit, imports, crashes, removals>>

\* Any regular file <source>.json is copied as the sidecar.  A source without
\* one ends the import; the sidecar of a profile replaced by force stays where
\* it was.
SidecarFound(i) ==
    /\ At(i, "sidecar")
    /\ IF imp[i].source \in Accompanied
         THEN Goes(i, "sideWrite") /\ TempIs(i, "sidecar", NoFile)
         ELSE Ends(i) /\ UNCHANGED temps
    /\ UNCHANGED <<binary, sidecar, audit, imports, crashes, stuck, removals>>

SidecarWritten(i) ==
    \/ /\ At(i, "sideWrite")
       /\ Goes(i, "sideFlush")
       /\ TempIs(i, "sidecar", Torn(imp[i].source))
       /\ UNCHANGED <<binary, sidecar, audit, imports, crashes, stuck, removals>>
    \/ /\ At(i, "sideFlush")
       /\ Goes(i, "sideRename")
       /\ TempIs(i, "sidecar", imp[i].source)
       /\ UNCHANGED <<binary, sidecar, audit, imports, crashes, stuck, removals>>

SidecarRenamed(i) ==
    /\ At(i, "sideRename")
    /\ \E t \in TempsOf(i) : sidecar' = [sidecar EXCEPT ![imp[i].voice] = t.file]
    /\ Unlinks(i)
    /\ Ends(i)
    /\ UNCHANGED <<binary, audit, imports, crashes, stuck, removals>>

\* An OSError over the sidecar is swallowed: the import has succeeded.
SidecarFails(i) ==
    /\ imp[i].pc \in {"sidecar", "sideWrite", "sideFlush", "sideRename"}
    /\ imp[i].source \in Accompanied
    /\ CleansUp(i)
    /\ Ends(i)
    /\ UNCHANGED <<binary, sidecar, audit, imports, crashes, removals>>

----------------------------------------------------------------------------
(* A killed import, and the operator's own hand on the directory.          *)

Crash(i) ==
    /\ ~At(i, "idle") /\ crashes < MaxCrashes
    /\ crashes' = crashes + 1
    /\ Abandons(i)
    /\ Ends(i)
    /\ UNCHANGED <<binary, sidecar, audit, imports, stuck, removals>>

Removed(v) ==
    /\ binary[v] # NoFile /\ removals < MaxRemovals
    /\ removals' = removals + 1
    /\ binary' = [binary EXCEPT ![v] = NoFile]
    /\ \/ sidecar' = [sidecar EXCEPT ![v] = NoFile]
       \/ UNCHANGED sidecar
    /\ UNCHANGED <<temps, imp, audit, imports, crashes, stuck>>

----------------------------------------------------------------------------
(* cmd_audit lists the directory first and reads the files afterwards.     *)
(* Its filter is the suffix alone: the temporary file of an import is an   *)
(* entry like any other, an unlicensed one.                                *)

AuditStarts ==
    /\ audit.pc = "idle"
    /\ audit' = [pc    |-> "reading",
                 todo  |-> {v \in Voices : binary[v] # NoFile},
                 valid |-> \A t \in temps : t.kind # "binary"]
    /\ UNCHANGED <<binary, sidecar, temps, imp, imports, crashes, stuck, removals>>

\* A profile counts when it parses and a sidecar with a licence and an
\* attribution is beside it; one that has vanished since is an issue.
AuditedWell(v) ==
    /\ binary[v] # NoFile /\ Parses(binary[v])
    /\ sidecar[v] \in Documented

AuditReads(v) ==
    /\ audit.pc = "reading" /\ v \in audit.todo
    /\ audit' = [audit EXCEPT !.todo = @ \ {v}, !.valid = @ /\ AuditedWell(v)]
    /\ UNCHANGED <<binary, sidecar, temps, imp, imports, crashes, stuck, removals>>

AuditEnds ==
    /\ audit.pc = "reading" /\ audit.todo = {}
    /\ audit' = NoAudit
    /\ UNCHANGED <<binary, sidecar, temps, imp, imports, crashes, stuck, removals>>

ImportStep(i) ==
    \/ \E v \in Voices, s \in Sources, force \in BOOLEAN : ImportStarts(i, v, s, force)
    \/ SourceRead(i) \/ TempMade(i) \/ Written(i) \/ Flushed(i) \/ Renamed(i)
    \/ ImportFails(i)
    \/ SidecarFound(i) \/ SidecarWritten(i) \/ SidecarRenamed(i) \/ SidecarFails(i)
    \/ Crash(i)

LibNext ==
    \/ \E i \in Importers : ImportStep(i)
    \/ \E v \in Voices : Removed(v) \/ AuditReads(v)
    \/ AuditStarts \/ AuditEnds

----------------------------------------------------------------------------
(* discover_voices: the ids of the profiles in the directory.  Temporary   *)
(* files have no safe name and are not seen.  Two ids that differ by case  *)
(* only make the scan raise.                                               *)

Discovered == {v \in Voices : binary[v] # NoFile}
Ambiguous  == \E v, w \in Discovered : v # w /\ Fold(v) = Fold(w)

----------------------------------------------------------------------------
(* Properties.                                                             *)

LibTypeOK ==
    /\ binary \in [Voices -> Contents \cup {NoFile}]
    /\ sidecar \in [Voices -> Contents \cup {NoFile}]
    /\ temps \subseteq Temp
    /\ imp \in [Importers -> {Idle} \cup Run]
    /\ audit \in [pc : {"idle", "reading"}, todo : SUBSET Voices, valid : BOOLEAN]
    /\ imports \in 0..MaxImports
    /\ crashes \in 0..MaxCrashes
    /\ stuck \in 0..MaxStuck
    /\ removals \in 0..MaxRemovals

\* Whatever imports overlap, fail or are killed, a file the server can
\* discover and the backend can open is a complete profile, and a sidecar
\* is a complete sidecar (the temp file + rename of cmd_import).
ServedWhole ==
    \A v \in Voices : /\ binary[v] # NoFile => Parses(binary[v])
                      /\ sidecar[v] # NoFile => sidecar[v] \in Accompanied

\* Only a killed import, or one whose clean-up failed too, leaves a temporary
\* file behind: one that fails otherwise removes it, and none belongs to an
\* import that is over (voice_cli.py:250-266, whose docstring promises the
\* clean-up "on any failure").
TempsReclaimed ==
    \A t \in temps :
        IF t.owner = Nobody THEN crashes > 0 \/ stuck > 0
                            ELSE imp[t.owner].pc \in Stages \ {"read", "temp", "sidecar"}
=============================================================================
