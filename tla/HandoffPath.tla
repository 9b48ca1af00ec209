---------------------------- MODULE HandoffPath -----------------------------
(***************************************************************************)
(* The paths a trusted handoff may open: normalizeRelativePath and         *)
(* isAllowedPath of handoff-path.ts, over a path that is a sequence of raw *)
(* segments.  A segment is one of a few texts that differ in how they      *)
(* decode and in what the checks look for; "%2F" in one is a slash that    *)
(* only decoding shows.                                                    *)
(***************************************************************************)
EXTENDS Integers, Sequences, SequencesExt

CONSTANTS Paths,     \* the inputs asked for
          NoPath     \* null: the input is refused

\* A requested path: does it start with a slash, its raw segments, its query.
Path == [slash : BOOLEAN, segs : Seq(STRING), query : {"none", "empty", "some"}]

ASSUME PathAssumption == Paths \subseteq Path /\ NoPath \notin Path

\* decodeURIComponent of a segment, split again at the slashes it brings.
decodeURIComponent(s) ==
    CASE s = "%2e%2e" -> <<"..">>
      [] s = "%2e" -> <<".">>
      [] s = "a%2Fb" -> <<"a", "b">>
      [] s = "a%2F.." -> <<"a", "..">>
      [] s = "%2Fa" -> <<"", "a">>
      [] s = "%5C" -> <<"\\">>
      [] OTHER -> <<s>>

Decoded(p) == FlattenSeq([i \in DOMAIN p.segs |-> decodeURIComponent(p.segs[i])])

\* Texts ALLOWED_CHARS refuses, escapes that do not decode, more than 512 characters.
Refused == {"\\", "#", "%zz", "long"}
OtherHost(segs) == Len(segs) > 1 /\ segs[1] = ""
Scheme(segs) == Len(segs) > 0 /\ segs[1] = "x:"

\* Mutant: the checks that follow the decoding look at the raw segments.
normalizeRaw(p) ==
    IF /\ p.slash /\ ~OtherHost(p.segs) /\ ToSet(p.segs) \cap Refused = {}
       /\ ToSet(p.segs) \cap {".", ".."} = {}
       /\ ~Scheme(p.segs)
      THEN [p EXCEPT !.query = IF @ = "empty" THEN "none" ELSE @]
      ELSE NoPath

normalizeRelativePath(p) ==
    IF /\ p.slash /\ ~OtherHost(p.segs) /\ ToSet(p.segs) \cap Refused = {}
       /\ ~OtherHost(Decoded(p)) /\ ToSet(Decoded(p)) \cap {".", "..", "\\"} = {}
       /\ ~Scheme(Decoded(p))
      THEN [p EXCEPT !.query = IF @ = "empty" THEN "none" ELSE @]
      ELSE NoPath

Matches(segs, want) ==
    /\ Len(want) = Len(segs)
    /\ \A i \in DOMAIN want : IF want[i] = "*" THEN segs[i] # "" ELSE segs[i] = want[i]

\* The segments compared are the raw ones: normalizeRelativePath returns the
\* path as it came, not as it decodes.
isAllowedPath(p, patterns) == \E want \in patterns : Matches(p.segs, want)

\* What a browser or a router opens for a decoded path: "." and ".." are taken
\* out, and a second slash at the start names another host.
Opened(segs) ==
    LET opened[n \in 0..Len(segs)] ==
          IF n = 0 THEN <<>>
          ELSE CASE segs[n] = ".." -> IF opened[n - 1] = <<>> THEN <<>> ELSE Front(opened[n - 1])
                 [] segs[n] = "." -> opened[n - 1]
                 [] OTHER -> Append(opened[n - 1], segs[n])
    IN  opened[Len(segs)]

\* The path opens in the application it is handed to, and where it says.
StaysInside(p) ==
    /\ Opened(Decoded(p)) = Decoded(p)
    /\ ~OtherHost(Decoded(p)) /\ ~Scheme(Decoded(p))
=============================================================================
