---------------------------- MODULE DiffBatches ----------------------------
(***************************************************************************)
(* reviewbot/diff.py: which lines of a changed file a patch adds, and how  *)
(* the changed files of a pull request are packed into batches of at most  *)
(* MaxBytes for the model.                                                 *)
(*                                                                         *)
(* A changed file is a record of its path, its patch (empty when GitHub    *)
(* sends none) and size, the bytes of its rendered section.  A patch is    *)
(* the sequence of the pieces that str.splitlines() cuts it into.  It cuts *)
(* at the end of a line of git, and also within a line at a form feed, a   *)
(* lone carriage return, U+2028 and others: the piece after such a cut is  *)
(* the rest of a line.  Of a piece its kind is kept, which is what the     *)
(* parser sees at its start, and the start of a hunk in the new file.      *)
(***************************************************************************)
EXTENDS Naturals, Sequences, SequencesExt, FiniteSets

CONSTANT MaxBytes    \* settings.max_diff_bytes

ASSUME BytesAssumption == MaxBytes \in Nat \ {0}

LineKinds == {"hunk", "add", "plusplus", "del", "context", "eof"}

PatchLines == [kind : LineKinds, start : Nat, rest : BOOLEAN]

ChangedFiles == [path : Nat, patch : Seq(PatchLines), size : Nat]

Hunk(n) == [kind |-> "hunk", start |-> n, rest |-> FALSE]
Line(k) == [kind |-> k, start |-> 0, rest |-> FALSE]
Rest(k) == [Line(k) EXCEPT !.rest = TRUE]

\* One piece of a patch; the parser does not know which are rests.  "plusplus"
\* begins with "+++": it looks like a file header and is passed over without
\* being counted.  Line 0 stands for None: a hunk that starts at 0 has deleted
\* lines only.
ParseLine(s, l) ==
    CASE l.kind = "hunk" -> [s EXCEPT !.line = l.start]
      [] l.kind = "add" /\ s.line > 0 ->
            [line |-> s.line + 1, changed |-> s.changed \union {s.line}]
      [] l.kind = "context" /\ s.line > 0 -> [s EXCEPT !.line = @ + 1]
      [] OTHER -> s

\* The parser after each line (line 0: before the first hunk).
Parsed(patch) ==
    LET after[i \in 0 .. Len(patch)] ==
            IF i = 0 THEN [line |-> 0, changed |-> {}] ELSE ParseLine(after[i - 1], patch[i])
    IN  after

\* The line numbers a patch is taken to add.
ParseChangedLines(patch) == Parsed(patch)[Len(patch)].changed

-----------------------------------------------------------------------------
(* Packing.                                                                *)

NoBatch == [files |-> <<>>, bytes |-> 0]

Flush(plan) ==
    IF plan.open.files = <<>> THEN plan
    ELSE [batches |-> Append(plan.batches, plan.open), open |-> NoBatch,
          reviewed |-> plan.reviewed, omitted |-> plan.omitted]

Omit(plan, f) ==
    [batches |-> plan.batches, open |-> plan.open, reviewed |-> plan.reviewed,
     omitted |-> Append(plan.omitted, f.path)]

\* f joins the open batch, which is then `bytes` long.
Join(plan, f, bytes) ==
    [batches |-> plan.batches,
     open |-> [files |-> Append(plan.open.files, f.path), bytes |-> bytes],
     reviewed |-> Append(plan.reviewed, f.path),
     omitted |-> plan.omitted]

\* A file that the model can be shown.
Packable(f) == f.patch # <<>> /\ f.size <= MaxBytes

\* Mutant: the byte between two sections is forgotten.
PackNoSeparator(plan, f) ==
    LET room == IF plan.open.bytes + f.size > MaxBytes THEN Flush(plan) ELSE plan
        sep == IF room.open.files = <<>> THEN 0 ELSE 1
    IN  IF Packable(f) THEN Join(room, f, room.open.bytes + sep + f.size) ELSE Omit(plan, f)

\* One changed file: it is omitted, or joins the open batch, or opens the next.
Pack(plan, f) ==
    LET sep == IF plan.open.files = <<>> THEN 0 ELSE 1
        full == sep = 1 /\ plan.open.bytes + sep + f.size > MaxBytes
    IN  IF ~Packable(f) THEN Omit(plan, f)
        ELSE IF full THEN Join(Flush(plan), f, f.size)
        ELSE Join(plan, f, plan.open.bytes + sep + f.size)

\* The plan after each file.
Packed(files) ==
    LET after[i \in 0 .. Len(files)] ==
            IF i = 0 THEN [batches |-> <<>>, open |-> NoBatch, reviewed |-> <<>>, omitted |-> <<>>]
            ELSE Pack(after[i - 1], files[i])
    IN  after

\* build_diff_batches: the plan of the diff mode.
BuildDiffBatches(files) == Flush(Packed(files)[Len(files)])

PathsOf(S) == {f.path : f \in S}

FilesAt(files, paths) == {f \in ToSet(files) : f.path \in paths}

Anchors(files, paths) ==
    UNION {{f.path} \X ParseChangedLines(f.patch) : f \in FilesAt(files, paths)}

\* The context of batch i: what the model sees and may comment on.
BatchContext(files, plan, i) ==
    [anchors |-> Anchors(files, ToSet(plan.batches[i].files)),
     omitted |-> ToSet(plan.omitted),
     shown |-> ToSet(plan.batches[i].files)]

\* build_diff_context, the one context of the deep mode: the text of the first
\* batch, the changed lines of every file, the later batches among the omitted.
BuildDiffContext(files, plan) ==
    LET shown == IF plan.batches = <<>> THEN {} ELSE ToSet(plan.batches[1].files)
    IN  [anchors |-> Anchors(files, PathsOf(ToSet(files))),
         omitted |-> ToSet(plan.omitted) \union (ToSet(plan.reviewed) \ shown),
         shown |-> shown]

-----------------------------------------------------------------------------
(* Reference definitions.                                                  *)

\* What git means: the rest of a line is no line.
OpensHunk(l) == l.kind = "hunk" /\ ~l.rest
InNewFile(l) == l.kind \in {"add", "plusplus", "context"} /\ ~l.rest

\* The hunk that piece i of a patch belongs to, 0 before the first.
HunkOf(patch, i) ==
    LET above == {j \in 1 .. i : OpensHunk(patch[j])}
    IN  IF above = {} THEN 0 ELSE Max(above)

\* The number of a line in the new file.
NewLineNumber(patch, i) ==
    LET h == HunkOf(patch, i)
    IN  patch[h].start + Cardinality({j \in h .. (i - 1) : InNewFile(patch[j])})

\* What the patch really adds.
ReallyAdded(patch) ==
    {NewLineNumber(patch, i) : i \in {j \in DOMAIN patch :
        InNewFile(patch[j]) /\ patch[j].kind # "context" /\ HunkOf(patch, j) # 0}}

\* The parser takes the pieces of such a patch for what they are not: an added
\* line whose text begins with "++", or a line that is cut in two.
Misread(patch) == \E i \in DOMAIN patch : patch[i].kind = "plusplus" \/ patch[i].rest

\* Where a path stands in a list of files.
Position(files, p) == CHOOSE i \in DOMAIN files : files[i].path = p

DistinctPaths(files) == \A i, j \in DOMAIN files : files[i].path = files[j].path => i = j

\* What section i adds to its batch: its bytes and, but for the first, one
\* between it and the last.
Growth(files, paths, i) ==
    (IF i = 1 THEN 0 ELSE 1) + files[Position(files, paths[i])].size

\* The bytes of a batch after each section.
Sizes(files, paths) ==
    LET upto[i \in 0 .. Len(paths)] ==
            IF i = 0 THEN 0 ELSE upto[i - 1] + Growth(files, paths, i)
    IN  upto

SizeOf(files, paths) == Sizes(files, paths)[Len(paths)]
=============================================================================
