------------------------------- MODULE Paths -------------------------------
(***************************************************************************)
(* helpers.cpp, parse_buffer and the commands' treatment of arguments on   *)
(* strings, as sequences of characters.  A client types any text; the      *)
(* properties hold for the text as a command line, an argument or a path.  *)
(***************************************************************************)
EXTENDS Integers, SequencesExt, FiniteSetsExt

CONSTANTS
    Letters,    \* the characters that are neither a slash nor a space
    Upper,      \* the upper case of the lower-case ones among them
    Delims,     \* delimiters and searched strings
    Dirs,       \* working directories
    MaxLen      \* length of the text (a bound)

ASSUME LettersAssumption == "/" \notin Letters /\ " " \notin Letters
ASSUME BoundAssumption == MaxLen \in Nat
\* The upper case of a letter is no space.
ASSUME UpperAssumption == \A c \in DOMAIN Upper : Upper[c] # " "

VARIABLE text

Chars == Letters \cup {"/", " "}

\* Every call passes a delimiter, and a string to replace, that is not empty.
ASSUME DelimsAssumption == \A d \in Delims : d \in Seq(Chars) /\ d # <<>>
\* m_working_directory is "/" at first; CWD and CDUP leave an absolute path in it.
ASSUME DirsAssumption == \A dir \in Dirs : dir \in Seq(Chars) /\ dir # <<>> /\ dir[1] = "/"

Init == text = <<>>

Type(c) ==
    /\ Len(text) < MaxLen
    /\ text' = Append(text, c)

Next == \E c \in Chars : Type(c)

Spec == Init /\ [][Next]_text

-----------------------------------------------------------------------------
(* helpers.cpp                                                             *)

Slash == <<"/">>

\* What follows the last slash.
GetBasename(path) ==
    IF ~Contains(path, "/") THEN path
    ELSE SubSeq(path, Max({i \in DOMAIN path : path[i] = "/"}) + 1, Len(path))

\* Where the scan backwards stops: at a slash, but not before the second
\* character.
ScanStop(path) == Max({2} \cup {i \in 3..Len(path) : path[i] = "/"})

\* Mutant: the slash is part of the parent.
GetParentPathWithSlash(path) ==
    IF Len(path) <= 1 \/ path[1] # "/" THEN Slash
    ELSE SubSeq(path, 1, ScanStop(path))

GetParentPath(path) ==
    IF Len(path) <= 1 \/ path[1] # "/" THEN Slash
    ELSE SubSeq(path, 1, ScanStop(path) - 1)

\* std::string::find: the first occurrence of d from position i on, or 0.
Find(s, d, from) ==
    LET at == {i \in from..(Len(s) - Len(d) + 1) : SubSeq(s, i, i + Len(d) - 1) = d}
    IN  IF at = {} THEN 0 ELSE Min(at)

\* Mutant: the search goes on one character after the delimiter's first.
StringSplitOverlapping(s, d) ==
    LET pieces[from \in 1..(Len(s) + 1)] ==
          IF Find(s, d, from) = 0 THEN <<SubSeq(s, from, Len(s))>>
          ELSE <<SubSeq(s, from, Find(s, d, from) - 1)>>
                 \o pieces[Find(s, d, from) + 1]
    IN  IF s = <<>> THEN <<>> ELSE pieces[1]

\* The loop of string_split: the pieces of s from each find_start on.
Pieces(s, d) ==
    LET pieces[from \in 1..(Len(s) + 1)] ==
          IF Find(s, d, from) = 0 THEN <<SubSeq(s, from, Len(s))>>
          ELSE <<SubSeq(s, from, Find(s, d, from) - 1)>>
                 \o pieces[Find(s, d, from) + Len(d)]
    IN  pieces

StringSplit(s, d) == IF s = <<>> THEN <<>> ELSE Pieces(s, d)[1]

\* Mutant: no separator is put between the pieces.
StringJoinBare(pieces, sep) == FoldLeft(LAMBDA s, p : s \o p, <<>>, pieces)

\* The loop of string_join: what it appends from each piece on.
Joined(pieces, sep) ==
    LET joined[i \in 1..Len(pieces)] ==
          IF i = Len(pieces) THEN pieces[i] ELSE pieces[i] \o sep \o joined[i + 1]
    IN  joined

StringJoin(pieces, sep) == IF pieces = <<>> THEN <<>> ELSE Joined(pieces, sep)[1]

StringToUppercase(s) == [i \in DOMAIN s |-> IF s[i] \in DOMAIN Upper THEN Upper[s[i]] ELSE s[i]]

\* A string does not start with itself.
StringStartsWith(s, prefix) ==
    Len(s) > Len(prefix) /\ SubSeq(s, 1, Len(prefix)) = prefix

\* Mutant: only the first occurrence is replaced.
StringReplaceFirst(s, x, r) ==
    IF Find(s, x, 1) = 0 THEN s
    ELSE SubSeq(s, 1, Find(s, x, 1) - 1) \o r
           \o SubSeq(s, Find(s, x, 1) + Len(x), Len(s))

\* The loop of string_replace: what it appends from each find_start on.
Replaced(s, x, r) ==
    LET replaced[from \in 1..(Len(s) + 1)] ==
          IF Find(s, x, from) = 0 THEN SubSeq(s, from, Len(s))
          ELSE SubSeq(s, from, Find(s, x, from) - 1) \o r
                 \o replaced[Find(s, x, from) + Len(x)]
    IN  replaced

StringReplace(s, x, r) == Replaced(s, x, r)[1]

-----------------------------------------------------------------------------
(* What base_session does with them.                                       *)

\* parse_buffer: the last two bytes are dropped, whatever they are.
ParseBuffer(buffer) ==
    LET words == StringSplit(SubSeq(buffer, 1, Len(buffer) - 2), <<" ">>)
    IN  [command  |-> StringToUppercase(words[1]),
         argument |-> StringJoin(Tail(words), <<" ">>)]

\* The path and the name under which a command looks up its object.
Object(path, name) == [path |-> path, name |-> name]
Located(path) == Object(GetParentPath(path), GetBasename(path))
Single(arg) == Len(StringSplit(arg, Slash)) = 1

\* Mutant: a slash anywhere but in front makes no path.
MkdObjectFront(dir, arg) ==
    IF arg[1] # "/" THEN Object(dir, arg)
    ELSE Object(GetParentPath(Slash \o arg), GetBasename(arg))

MkdObject(dir, arg) ==
    IF Single(arg) THEN Object(dir, arg)
    ELSE Object(GetParentPath(Slash \o arg), GetBasename(arg))

RmdObject(dir, arg) ==
    IF Single(arg) THEN Object(dir, arg)
    ELSE IF arg[1] # "/" THEN Object(GetParentPath(Slash \o arg), GetBasename(arg))
    ELSE Located(arg)

StorObject(dir, arg) ==
    Located(IF arg[1] = "/" THEN arg
            ELSE IF dir = Slash THEN dir \o arg ELSE dir \o Slash \o arg)

RetrObject(dir, arg) ==
    IF Single(arg) THEN Object(dir, arg)
    ELSE IF StringStartsWith(arg, Slash) THEN Located(arg)
    ELSE Object(GetParentPath(dir \o arg), GetBasename(arg))

-----------------------------------------------------------------------------
(* Properties.                                                             *)

Seg == INSTANCE PathAlgebra WITH Empty <- <<>>

\* The segments of an absolute path and of an argument; an object is at the path
\* p of segments if its row has the parent and the last segment of p.
PathSegments(path) == IF path = Slash THEN Seg!Root ELSE Tail(StringSplit(path, Slash))
ArgSegments(arg) ==
    IF arg[1] = "/" THEN Tail(StringSplit(arg, Slash)) ELSE StringSplit(arg, Slash)
IsAt(o, p) == PathSegments(o.path) = Seg!Parent(p) /\ o.name = Last(p)

\* Splitting loses nothing and leaves no delimiter (string_split, string_join).
SplitsAndJoins ==
    \A d \in Delims :
        /\ StringJoin(StringSplit(text, d), d) = text
        /\ \A i \in DOMAIN StringSplit(text, d) : Find(StringSplit(text, d)[i], d, 1) = 0

\* string_replace replaces exactly what string_split would cut out.
ReplacesAll ==
    \A x \in Delims, r \in Delims :
        StringReplace(text, x, r) = StringJoin(StringSplit(text, x), r)

\* A command line is its command, a space and its argument as it was typed; only
\* the command is put in upper case (parse_buffer).
CommandRecovered ==
    text # <<>> =>
        LET r == ParseBuffer(text \o <<"CR", "LF">>)
            n == Len(r.command)
        IN  /\ ~Contains(r.command, " ")
            /\ r.command = StringToUppercase(SubSeq(text, 1, n))
            /\ \/ n = Len(text) /\ r.argument = <<>>
               \/ SubSeq(text, n + 1, Len(text)) = <<" ">> \o r.argument

\* On an absolute path get_parent_path and get_basename are what PathAlgebra says,
\* with empty segments and trailing slashes too, so objects have one place.
ParentAgrees ==
    text # <<>> /\ text[1] = "/" /\ text # Slash =>
        /\ PathSegments(GetParentPath(text)) = Seg!Parent(PathSegments(text))
        /\ GetBasename(text) = Last(PathSegments(text))

\* Each command finds the object that PathAlgebra makes of its argument, which is
\* what VirtualFs is built on.  RETR does so only for a name, for an absolute
\* path and in the root: elsewhere it joins the working directory and a relative
\* path without a slash.
ArgumentsAgree ==
    text # <<>> =>
        \A dir \in Dirs :
            LET d == PathSegments(dir)
                abs == text[1] = "/"
                segs == ArgSegments(text)
            IN  /\ IsAt(MkdObject(dir, text), Seg!MkdTarget(d, abs, segs))
                /\ IsAt(RmdObject(dir, text), Seg!RmdTarget(d, abs, segs))
                /\ IsAt(StorObject(dir, text), Seg!Resolve(d, abs, segs))
                /\ Single(text) \/ (abs /\ text # Slash) \/ dir = Slash =>
                     IsAt(RetrObject(dir, text), Seg!Resolve(d, abs, segs))

=============================================================================
