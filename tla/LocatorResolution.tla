-------------------------- MODULE LocatorResolution --------------------------
(***************************************************************************)
(* resolution/locator_resolver.py over the segment stores: locators are    *)
(* issued by SegmentRegistry.register, one put per segment, and resolved   *)
(* later, with or without a version, to a range of the source's bytes.     *)
(*                                                                         *)
(* A structural path is the sequence of its numbers (chapter/2/paragraph/1 *)
(* is <<2, 1>>), which is also the selector of the locator; <<>> stands    *)
(* for a locator without a structural selector.  A version is its rank.    *)
(* A source is a sequence of bytes: letters of one byte, "n" the line feed,*)
(* "L" and "K" the lead and the second byte of a character of two, "X" a   *)
(* byte that no UTF-8 text has.                                            *)
(***************************************************************************)
EXTENDS Naturals, SequencesExt

CONSTANTS
    Texts,          \* sequences of bytes: what a source may hold
    SegmentPaths,   \* structural paths of its segments
    Versions,       \* ranks of the toolchains that segment it
    MaxRange        \* max_range_bytes

Known == "s"                \* the id of the source that is registered
Policies == {"bare", "explicit"}
NoVersion == 0

VARIABLES
    fileText,       \* the bytes of the source
    perVersion,     \* the store keeps a row per version (in memory) or per path
    segmentRows,    \* rows of the store: [path, version]
    issued,         \* locators handed to callers: [source, path, version]
    answer          \* the last SourceRange, and the question it answers;
                    \* UNRESOLVED is also a PATH_UNRESOLVED record

locVars == <<fileText, perVersion, segmentRows, issued, answer>>

NoAnswer == [drift |-> "UNRESOLVED"]

LocInit ==
    /\ fileText \in Texts /\ perVersion \in BOOLEAN
    /\ segmentRows = {} /\ issued = {} /\ answer = NoAnswer

Locator(source, path, version) == [source |-> source, path |-> path, version |-> version]

\* put: ON CONFLICT DO NOTHING on the path, or on the path and the version tag.
PutRow(path, version) ==
    IF \E r \in segmentRows : r.path = path /\ (perVersion => r.version = version)
    THEN segmentRows ELSE segmentRows \cup {[path |-> path, version |-> version]}

\* The caller gets the locator _build made, whichever version the row keeps.
RegisterPath(path, version) ==
    /\ segmentRows' = PutRow(path, version)
    /\ issued' = issued \cup {Locator(Known, path, version)}
    /\ UNCHANGED <<fileText, perVersion, answer>>

FindMatches(loc) ==
    IF loc.source = Known THEN {r \in segmentRows : r.path = loc.path} ELSE {}

Newest(matches) == CHOOSE r \in matches : \A q \in matches : q.version <= r.version

\* Mutant: no fallback when the version asked for has no row.
ExactOnly(matches, loc, policy) ==
    IF policy = "explicit" THEN {r \in matches : r.version = loc.version}
    ELSE IF matches = {} THEN {} ELSE {Newest(matches)}

\* The row of the version asked for; without one, the newest.
SelectRow(matches, loc, policy) ==
    LET exact == {r \in matches : r.version = loc.version}
    IN IF matches = {} THEN {}
       ELSE IF policy = "explicit" /\ loc.version # NoVersion /\ exact # {} THEN exact
       ELSE {Newest(matches)}

Drift(row, matches) == IF row = Newest(matches) THEN "NONE" ELSE "VERSION"

\* str.split on two line feeds, each found left to right.
Paragraphs(letters) ==
    LET split == FoldLeft(
            LAMBDA s, c :
                IF c = "n" /\ s.open # <<>> /\ Last(s.open) = "n"
                THEN [closed |-> Append(s.closed, Front(s.open)), open |-> <<>>]
                ELSE [s EXCEPT !.open = Append(@, c)],
            [closed |-> <<>>, open |-> <<>>], letters)
    IN Append(split.closed, split.open)

\* U+FFFD in UTF-8.
Replacement == <<"R1", "R2", "R3">>

\* raw.decode("utf-8", errors="replace") and, piece by piece, encode("utf-8"):
\* a byte that is no part of a character becomes U+FFFD, three bytes.
Recode(bytes) ==
    LET Cut(s) == IF s.lead THEN s.text \o Replacement ELSE s.text
        read == FoldLeft(
            LAMBDA s, b :
                CASE b = "L" -> [text |-> Cut(s), lead |-> TRUE]
                  [] b = "K" /\ s.lead -> [text |-> s.text \o <<"L", "K">>, lead |-> FALSE]
                  [] b = "X" \/ (b = "K" /\ ~s.lead) ->
                        [text |-> Cut(s) \o Replacement, lead |-> FALSE]
                  [] b \notin {"L", "K", "X"} -> [text |-> Append(Cut(s), b), lead |-> FALSE],
            [text |-> <<>>, lead |-> FALSE], bytes)
    IN Cut(read)

ByteRange(data, first) == [data |-> data, start |-> first, end |-> first + Len(data)]

\* The paragraph the first number of the selector names, or the last there is.
TextRange(letters, numbers) ==
    LET paragraphs == Paragraphs(letters)
        idx == IF numbers[1] < Len(paragraphs) THEN numbers[1] ELSE Len(paragraphs)
    IN ByteRange(paragraphs[idx],
                 FoldLeft(LAMBDA sum, p : sum + Len(p) + 2, 0, SubSeq(paragraphs, 1, idx - 1)))

\* The bytes the resolver reads: the source, or as much as one range may hold.
Window == SubSeq(fileText, 1, IF Len(fileText) < MaxRange THEN Len(fileText) ELSE MaxRange)

Retrieve(loc) ==
    IF loc.path = <<>> THEN ByteRange(Window, 0) ELSE TextRange(Recode(Window), loc.path)

Resolve(loc, policy) ==
    LET matches == FindMatches(loc)
        selected == SelectRow(matches, loc, policy)
    IN /\ answer' =
             IF selected = {}
             THEN [asked |-> loc, policy |-> policy, drift |-> "UNRESOLVED"]
             ELSE LET row == CHOOSE r \in selected : TRUE
                  IN [asked |-> loc, policy |-> policy, drift |-> Drift(row, matches),
                      version |-> row.version, range |-> Retrieve(loc)]
       /\ UNCHANGED <<fileText, perVersion, segmentRows, issued>>

\* A locator that was issued, its bare form, or one nobody issued.
Askable ==
    issued \cup {[loc EXCEPT !.version = NoVersion] : loc \in issued}
           \cup {Locator(s, p, NoVersion) : s \in {Known, "unknown"}, p \in SegmentPaths}

LocNext ==
    \/ \E path \in SegmentPaths, version \in Versions : RegisterPath(path, version)
    \/ \E loc \in Askable, policy \in Policies : Resolve(loc, policy)

LocSpec == LocInit /\ [][LocNext]_locVars

-----------------------------------------------------------------------------

\* A locator a caller was given never ends in the quarantine, whichever
\* toolchain segmented the source again after it was issued and whichever of the
\* two stores holds its row; nor does its bare form.
IssuedLocatorsResolve ==
    [][(answer' # answer /\ answer'.drift = "UNRESOLVED") =>
          \A loc \in issued : answer'.asked \notin {loc, [loc EXCEPT !.version = NoVersion]}]_locVars

\* An answer is about a version the store holds.  It is the one an explicit
\* locator asks for whenever that is held, and an answer from any version but
\* the newest says so.
AnswerNamesItsVersion ==
    [][LET held == {r.version : r \in {r \in segmentRows : r.path = answer'.asked.path}}
       IN (answer' # answer /\ answer'.drift # "UNRESOLVED") =>
             /\ answer'.version \in held
             /\ (answer'.policy = "explicit" /\ answer'.asked.version \in held)
                   => answer'.version = answer'.asked.version
             /\ (\E v \in held : v > answer'.version) <=> answer'.drift = "VERSION"]_locVars

BlankLineAt(letters, k) ==
    k \in 1..(Len(letters) - 1) /\ letters[k] = "n" /\ letters[k + 1] = "n"

\* The first n bytes are whole characters.
TextUpTo(n) ==
    n <= Len(Window) /\ Recode(SubSeq(Window, 1, n)) = SubSeq(Window, 1, n)

\* r delimits one paragraph of these bytes: blank lines or their ends bound it
\* and none is inside.
IsParagraph(r, bytes) ==
    /\ r.end <= Len(bytes) /\ r.data = SubSeq(bytes, r.start + 1, r.end)
    /\ r.start = 0 \/ BlankLineAt(bytes, r.start - 1)
    /\ r.end = Len(bytes) \/ BlankLineAt(bytes, r.end + 1)
    /\ \A k \in DOMAIN r.data : ~BlankLineAt(r.data, k)

\* A range of a whole source names the bytes it delivers.  What a structural
\* selector delivers is one paragraph of what was decoded, and as long as no
\* byte before its end had to be replaced it is that paragraph of the source, at
\* the place the range names: a replaced byte, or a character that the end of
\* the window cuts, spoils no answer before it.  Behind one the range counts
\* bytes that the source does not have.
RangeIsExact ==
    "range" \in DOMAIN answer =>
        LET r == answer.range
        IN IF answer.asked.path = <<>> THEN r = ByteRange(Window, 0)
           ELSE /\ IsParagraph(r, Recode(Window))
                /\ TextUpTo(r.end) => IsParagraph(r, Window)

\* A locator once issued resolves whatever is segmented later, its answer names
\* the version it comes from, and its byte range is one paragraph of the source
\* as far as the source is text.
LocatorsResolve ==
    /\ []RangeIsExact
    /\ IssuedLocatorsResolve
    /\ AnswerNamesItsVersion
==============================================================================
