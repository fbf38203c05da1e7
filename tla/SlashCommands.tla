---------------------------- MODULE SlashCommands ----------------------------
(***************************************************************************)
(* kenjutsu/server/commands.py: parse_command() on the comments of a pull  *)
(* request.  A comment is a sequence of lines.  A line has the command at  *)
(* its start, after spaces or tabs only, or elsewhere or nowhere; words    *)
(* follow it; and "\n", "\r\n" or the end of the comment ends it.  GitHub  *)
(* sends what is typed into its forms with "\r\n".                         *)
(***************************************************************************)
EXTENDS Naturals, SequencesExt

CONSTANTS MaxLines, MaxWords \* bounds

CommandsAssumption == {MaxLines, MaxWords} \subseteq Nat

VARIABLES comment, parsed

vars == <<comment, parsed>>

Words == {"review", "ignore", "other"}
Lines ==
    [command: BOOLEAN, words: BoundedSeq(Words, MaxWords), ending: {"lf", "crlf", "none"}]

NotParsed == [kind |-> "not parsed"]
Nothing == [kind |-> "None"]
ParseError == [kind |-> "ParseError"]
ParsedCommand(kind, words) == [kind |-> kind, file_path |-> words]

TypeOK ==
    /\ Len(comment) <= MaxLines /\ ToSet(comment) \subseteq Lines
    /\ \/ parsed \in {NotParsed, Nothing, ParseError}
       \/ parsed \in [kind: {"review", "ignore"}, file_path: BoundedSeq(Words, 1)]

Init == comment = <<>> /\ parsed = NotParsed

\* External: a line is written.
Write ==
    /\ parsed = NotParsed /\ Len(comment) < MaxLines
    /\ \A i \in DOMAIN comment : comment[i].ending # "none"
    /\ \E line \in Lines :
         /\ ~line.command => line.words = <<>>
         /\ comment' = Append(comment, line)
    /\ UNCHANGED parsed

\* _COMMAND_RE: what follows a command without words must be spaces and tabs up
\* to "$", which stands before "\n" and at the end, and not before "\r".
Matches(line) == line.command /\ (line.words # <<>> \/ line.ending # "crlf")

\* What the first line that matches asks for.
Command(words) ==
    IF words = <<>> THEN ParseError
    ELSE IF Head(words) = "review" /\ Len(words) <= 2 THEN ParsedCommand("review", Tail(words))
    ELSE IF words = <<"ignore">> THEN ParsedCommand("ignore", <<>>)
    ELSE ParseError

Parse ==
    /\ parsed = NotParsed
    /\ LET i == SelectInSeq(comment, Matches)
       IN  parsed' = IF i = 0 THEN Nothing ELSE Command(comment[i].words)
    /\ UNCHANGED comment

Next == Write \/ Parse

Spec == Init /\ [][Next]_vars

-----------------------------------------------------------------------------
\* commands.py:42, "None if no /kenjutsu command is present anywhere in the
\* comment", and an exception if one is there but malformed: None is the answer
\* only to comments without a command.
NoneMeansAbsent == parsed = Nothing => \A i \in DOMAIN comment : ~comment[i].command
==============================================================================
