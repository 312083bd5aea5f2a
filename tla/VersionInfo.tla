----------------------------- MODULE VersionInfo -----------------------------
(***************************************************************************)
(* util/version.go: the parse of the build's Version string into major,   *)
(* minor and patch numbers, and GetVersionInfo, which builds the package-  *)
(* level versionInfo on its first call without a lock.  HTTP handlers run  *)
(* on their own goroutines, so several first calls may interleave: each    *)
(* goroutine reads versionInfo (line 97), builds its own local VersionInfo *)
(* (98-115), stores the pointer (116) and reads versionInfo again to       *)
(* return it (119).                                                        *)
(*                                                                         *)
(* Version is a sequence of one-character strings.  Commit, Built and the  *)
(* version text are functions of other build constants alone and are left *)
(* out.  The race on the pointer is a data race; on the word-sized, store- *)
(* ordered writes of amd64 a reader sees either nil or a pointer to a      *)
(* fully built value, and those are the outcomes modelled.                 *)
(***************************************************************************)
EXTENDS Naturals, Sequences, SequencesExt

CONSTANTS
    Goroutines,     \* goroutines calling GetVersionInfo
    Versions,       \* values the build may give Version
    Nil             \* the nil *VersionInfo

Decimal == <<"0", "1", "2", "3", "4", "5", "6", "7", "8", "9">>
DigitValue(c) == SelectInSeq(Decimal, LAMBDA d : d = c) - 1
IsDigits(s) == s # <<>> /\ \A i \in 1..Len(s) : s[i] \in ToSet(Decimal)

\* strconv.Atoi on a string of the alphabet (no sign characters): the
\* decimal value, or an error for an empty string or any non-digit.
Atoi(s) ==
    IF IsDigits(s)
    THEN [ok |-> TRUE, val |-> FoldLeft(LAMBDA n, c : 10 * n + DigitValue(c), 0, s)]
    ELSE [ok |-> FALSE]

ParseError == [ok |-> FALSE]

\* strings.Index(s, ".") and strings.LastIndex(s, "."): 0-based, -1 if
\* there is no dot.  A Go slice s[a:b] is SubSeq(s, a + 1, b).
Index(s) == SelectInSeq(s, LAMBDA c : c = ".") - 1
LastIndex(s) == SelectLastInSeq(s, LAMBDA c : c = ".") - 1

ParseMajorVersion(v) ==
    LET endIdx == Index(v)
    IN IF endIdx <= 0 THEN ParseError
       ELSE Atoi(Remove(SubSeq(v, 1, endIdx), "v"))

\* Mutant of ParseMinorVersion: the slice starts at the dot.
ParseMinorVersionWithDot(v) ==
    LET startIdx == Index(v)
        rest == SubSeq(v, startIdx + 2, Len(v))
    IN IF startIdx <= 0 \/ Index(rest) <= 0 THEN ParseError
       ELSE Atoi(SubSeq(v, startIdx + 1, Index(rest) + startIdx + 1))

ParseMinorVersion(v) ==
    LET startIdx == Index(v)
        rest == SubSeq(v, startIdx + 2, Len(v))
    IN IF startIdx <= 0 \/ Index(rest) <= 0 THEN ParseError
       ELSE Atoi(SubSeq(v, startIdx + 2, Index(rest) + startIdx + 1))

ParsePatchVersion(v) ==
    LET startIdx == LastIndex(v)
    IN IF startIdx <= 0 THEN ParseError
       ELSE Atoi(SubSeq(v, startIdx + 2, Len(v)))

\* vi.Major, _ = parseMajorVersion() and so on: every error return is
\* (0, err), and the error is dropped.
IntOf(r) == IF r.ok THEN r.val ELSE 0

ZeroInfo == [major |-> 0, minor |-> 0, patch |-> 0]

BuiltInfo(v) ==
    [major |-> IntOf(ParseMajorVersion(v)),
     minor |-> IntOf(ParseMinorVersion(v)),
     patch |-> IntOf(ParsePatchVersion(v))]

-----------------------------------------------------------------------------
(* The reference: a semantic version "MAJOR.MINOR.PATCH" of decimal        *)
(* numbers, with an optional leading "v", split on its dots.               *)

RECURSIVE SplitOnDot(_)
SplitOnDot(s) ==
    LET i == SelectInSeq(s, LAMBDA c : c = ".")
    IN IF i = 0 THEN <<s>>
       ELSE <<SubSeq(s, 1, i - 1)>> \o SplitOnDot(SubSeq(s, i + 1, Len(s)))

RECURSIVE Decimal2Nat(_)
Decimal2Nat(s) == IF s = <<>> THEN 0
                  ELSE 10 * Decimal2Nat(Front(s)) + DigitValue(Last(s))

Core(v) == IF v # <<>> /\ Head(v) = "v" THEN Tail(v) ELSE v

IsSemVer(v) ==
    LET parts == SplitOnDot(Core(v))
    IN Len(parts) = 3 /\ \A i \in 1..3 : IsDigits(parts[i])

SemVer(v) ==
    LET parts == SplitOnDot(Core(v))
    IN [major |-> Decimal2Nat(parts[1]), minor |-> Decimal2Nat(parts[2]),
        patch |-> Decimal2Nat(parts[3])]

-----------------------------------------------------------------------------
(* GetVersionInfo on each goroutine *)

VARIABLES
    version,        \* Version, set by the build
    versionInfo,    \* the package-level pointer: Nil or the goroutine
                    \* whose local vi it points to
    vi,             \* each goroutine's local VersionInfo
    pc,             \* each goroutine's position in GetVersionInfo
    result          \* the VersionInfo each call returned

vars == <<version, versionInfo, vi, pc, result>>

Transition(g, from, to) ==
    /\ pc[g] = from
    /\ pc' = [pc EXCEPT ![g] = to]

\* Mutant of CheckNil: versionInfo = &vi moved up to just after
\* vi := VersionInfo{}, before the fields are filled.
CheckNilPublishingEarly(g) ==
    /\ pc[g] = "check"
    /\ IF versionInfo = Nil
       THEN /\ pc' = [pc EXCEPT ![g] = "build"]
            /\ versionInfo' = g
       ELSE /\ pc' = [pc EXCEPT ![g] = "return"]
            /\ UNCHANGED versionInfo
    /\ UNCHANGED <<version, vi, result>>

\* if versionInfo == nil
CheckNil(g) ==
    /\ pc[g] = "check"
    /\ pc' = [pc EXCEPT ![g] = IF versionInfo = Nil THEN "build" ELSE "return"]
    /\ UNCHANGED <<version, versionInfo, vi, result>>

\* vi := VersionInfo{} and the three parses into it.
Build(g) ==
    /\ Transition(g, "build", "publish")
    /\ vi' = [vi EXCEPT ![g] = BuiltInfo(version)]
    /\ UNCHANGED <<version, versionInfo, result>>

\* versionInfo = &vi
Publish(g) ==
    /\ Transition(g, "publish", "return")
    /\ versionInfo' = g
    /\ UNCHANGED <<version, vi, result>>

\* return versionInfo, nil
Return(g) ==
    /\ Transition(g, "return", "done")
    /\ result' = [result EXCEPT ![g] = vi[versionInfo]]
    /\ UNCHANGED <<version, versionInfo, vi>>

Init ==
    /\ version \in Versions
    /\ versionInfo = Nil
    /\ vi = [g \in Goroutines |-> ZeroInfo]
    /\ pc = [g \in Goroutines |-> "check"]
    /\ result = [g \in Goroutines |-> ZeroInfo]

Next ==
    \E g \in Goroutines :
        CheckNil(g) \/ Build(g) \/ Publish(g) \/ Return(g)

Spec == Init /\ [][Next]_vars

-----------------------------------------------------------------------------
(* Properties *)

TypeOK ==
    /\ versionInfo \in Goroutines \cup {Nil}
    /\ pc \in [Goroutines -> {"check", "build", "publish", "return", "done"}]

\* However the first calls interleave on the unlocked versionInfo, every
\* call of GetVersionInfo returns the VersionInfo parsed from Version,
\* never a value some goroutine has not finished building.
EveryCallerGetsBuiltInfo ==
    \A g \in Goroutines : pc[g] = "done" => result[g] = BuiltInfo(version)

\* For a Version of the form [v]MAJOR.MINOR.PATCH the three parses give
\* its three numbers.
ParseMatchesSemVer ==
    IsSemVer(version) => BuiltInfo(version) = SemVer(version)

=============================================================================
