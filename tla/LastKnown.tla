------------------------------ MODULE LastKnown ------------------------------
(***************************************************************************)
(* beacon-/lastknown.go: StoreLastKnown writes the last version announced  *)
(* in an update email to the file lastknownversion with os.WriteFile,      *)
(* which truncates the file and then writes the text; LastKnown reads it   *)
(* back and returns the newer of it and the running version.  The file is  *)
(* the sequence of characters v.String() produced, since what a crash or a *)
(* concurrent reader sees is a prefix of it.  updates.ParseVersion is not  *)
(* under src/: it accepts "v<major>.<minor>.<patch>" with decimal numbers. *)
(***************************************************************************)
EXTENDS Naturals, Sequences, SequencesExt

CONSTANTS
    Current,    \* beaconvar.Version, as text ("(devel)" in a development build)
    Announced,  \* versions the update checker may store, in the order stored
    MaxPatch    \* versions are v0.0.p with p in 0..MaxPatch

Version == {<<0, 0, p>> : p \in 0..MaxPatch}
\* The zero updates.Version{}: no version (parse error or none yet).
NoVersion == << >>

\* The decimal digits of n, most significant first.
RECURSIVE Digits(_)
Digits(n) == IF n < 10 THEN <<n>> ELSE Digits(n \div 10) \o <<n % 10>>

\* Version.String(): "v" followed by the dotted numbers.
VersionString(v) ==
    <<"v">> \o Digits(v[1]) \o <<".">> \o Digits(v[2]) \o <<".">> \o Digits(v[3])

\* updates.ParseVersion on the trimmed file content: a version, or "error".
ParseVersion(s) ==
    IF \E v \in Version : VersionString(v) = s
    THEN CHOOSE v \in Version : VersionString(v) = s
    ELSE NoVersion

\* Version.After.
After(a, b) ==
    \/ a[1] > b[1]
    \/ a[1] = b[1] /\ a[2] > b[2]
    \/ a[1] = b[1] /\ a[2] = b[2] /\ a[3] > b[3]

ASSUME Announced \in Seq(Version)

VARIABLES
    exists,    \* lastknownversion exists
    file,      \* its content
    wpc,       \* the StoreLastKnown call in progress: "idle", "truncated"
    next,      \* index in Announced of the next version to store
    stored,    \* history: the last version whose StoreLastKnown returned nil
    result     \* the last LastKnown call: lastknown returned, and stored then

vars == <<exists, file, wpc, next, stored, result>>

Init ==
    /\ exists = FALSE
    /\ file = << >>
    /\ wpc = "idle"
    /\ next = 1
    /\ stored = NoVersion
    /\ result = [v |-> NoVersion, base |-> NoVersion]

\* os.WriteFile, first half: open with O_TRUNC.
StoreTruncate ==
    /\ wpc = "idle"
    /\ next <= Len(Announced)
    /\ exists' = TRUE
    /\ file' = << >>
    /\ wpc' = "truncated"
    /\ UNCHANGED <<next, stored, result>>

\* os.WriteFile, second half: write v.String() and close; nil is returned.
StoreWrite ==
    /\ wpc = "truncated"
    /\ file' = VersionString(Announced[next])
    /\ stored' = Announced[next]
    /\ next' = next + 1
    /\ wpc' = "idle"
    /\ UNCHANGED <<exists, result>>

\* The process stops during the write: what reached the disk is a prefix of
\* the text.  The StoreLastKnown call never returns.
CrashDuringWrite ==
    /\ wpc = "truncated"
    /\ \E k \in 0..(Len(VersionString(Announced[next])) - 1) :
         file' = SubSeq(VersionString(Announced[next]), 1, k)
    /\ wpc' = "idle"
    /\ next' = next + 1
    /\ UNCHANGED <<exists, stored, result>>

\* LastKnown(): the newer of the running version and the stored one; a
\* version that does not parse is passed over for the other.
LastKnownOf(cur, content) ==
    LET curv == ParseVersion(cur)
        last == ParseVersion(content)
    IN CASE curv # NoVersion /\ last # NoVersion ->
              IF After(curv, last) THEN curv ELSE last
         [] curv # NoVersion -> curv
         [] last # NoVersion -> last
         [] OTHER -> NoVersion

\* A missing file reads as empty content (os.IsNotExist is not an error).
LastKnown ==
    /\ result' = [v |-> LastKnownOf(Current, IF exists THEN file ELSE << >>),
                  base |-> stored]
    /\ UNCHANGED <<exists, file, wpc, next, stored>>

Next == StoreTruncate \/ StoreWrite \/ CrashDuringWrite \/ LastKnown

Spec == Init /\ [][Next]_vars

\* "Future update checks compare against it, or the currently running
\* version, whichever is newer": once StoreLastKnown(v) has returned, LastKnown
\* never reports a version older than v, so an update already announced is
\* not announced again.
LastKnownNotBelowStored ==
    result.base # NoVersion /\ result.v # NoVersion
        => ~After(result.base, result.v)
=============================================================================
