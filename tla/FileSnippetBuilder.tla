---- MODULE FileSnippetBuilder ----
(***************************************************************************)
(* FileSnippetBuilder: the context of an event that names file:line is a   *)
(* window of numbered lines around that line.  Files are kept by name with *)
(* their number of lines, the window by its first and last line number.    *)
(***************************************************************************)
EXTENDS Integers, Sequences

CONSTANTS
    Window,     \* WINDOW, 50 in the code
    Names,      \* file names
    Lengths,    \* numbers of lines a file may have
    MaxLine,    \* largest line number that parses (usize::MAX)
    Events,     \* events the builder is asked about
    NoFile,     \* length of a file that is not in the map
    Text        \* context that is the event's own text

ASSUME SnippetAssumption ==
    /\ Window \in Nat \ {0}
    /\ MaxLine \in Nat
    /\ Lengths \subseteq Nat
    /\ NoFile \notin Nat
    /\ Text \notin Names

(* An event is its tokens and, read as one token, the whole of it.  Of a    *)
(* token, after trimming, count whether it is path:line, with a part before *)
(* the last colon that looks like a file (a "." or "/" in it) and a digit   *)
(* after that colon, the name before the colon and the number after it; a   *)
(* number too large for a usize is one beyond MaxLine.                      *)
Tokens == [path: BOOLEAN, name: Names, line: Nat]

ASSUME EventsAssumption ==
    Events \subseteq [tokens: Seq(Tokens), spaced: BOOLEAN, whole: Tokens]

VARIABLES
    files,      \* name -> number of lines, NoFile if not in the map
    shown       \* what the latest build returned

vars == <<files, shown>>

Contexts ==
    [of: Names \union {Text}, line: Nat, total: Nat, first: Nat, last: Nat]

TextContext == [of |-> Text, line |-> 0, total |-> 0, first |-> 1, last |-> 0]

TypeOK ==
    /\ files \in [Names -> Lengths \union {NoFile}]
    /\ shown \in Contexts

-----------------------------------------------------------------------------
(* window_snippet: the first and the last line shown for a reference to    *)
(* line in a file of total lines.                                          *)
Half == Window \div 2

Clamp(line, total) ==
    IF line < 1 THEN 1 ELSE IF line > total THEN total ELSE line

Start(line, total) ==
    IF Clamp(line, total) > Half THEN Clamp(line, total) - Half ELSE 1

(* Mutant of End: one line too many. *)
EndInclusive(line, total) ==
    IF Start(line, total) + Window < total THEN Start(line, total) + Window ELSE total

End(line, total) ==
    IF Start(line, total) + Window - 1 < total
    THEN Start(line, total) + Window - 1
    ELSE total

(* Mutant of Short: short files are corrected as well. *)
ShortAnyFile(line, total) == End(line, total) - Start(line, total) + 1 < Window

(* The window ran into the end of a file that has enough lines for it. *)
Short(line, total) ==
    /\ total >= Window
    /\ End(line, total) - Start(line, total) + 1 < Window

FirstLine(line, total) ==
    IF Short(line, total) THEN total - Window + 1 ELSE Start(line, total)

LastLine(line, total) ==
    IF Short(line, total) THEN total ELSE End(line, total)

Snippet(name, line) ==
    LET total == files[name]
    IN  [of |-> name, line |-> line, total |-> total,
         first |-> IF total = 0 THEN 1 ELSE FirstLine(line, total),
         last |-> IF total = 0 THEN 0 ELSE LastLine(line, total)]

-----------------------------------------------------------------------------
(* parse_token *)
Refers(token) == token.path /\ token.line <= MaxLine

(* Mutant of IsReference: a path:line that does not parse ends the search. *)
IsReferenceGivesUp(event, token) ==
    \/ \E i \in DOMAIN event.tokens :
          /\ token = event.tokens[i] /\ Refers(token)
          /\ \A j \in DOMAIN event.tokens : j > i => ~event.tokens[j].path
    \/ /\ \A i \in DOMAIN event.tokens : ~event.tokens[i].path
       /\ ~event.spaced /\ token = event.whole /\ Refers(token)

(* extract_file_line: the last token that refers to a file, else the whole  *)
(* event if it has no space (a tab may have split it).                     *)
IsReference(event, token) ==
    \/ \E i \in DOMAIN event.tokens :
          /\ token = event.tokens[i] /\ Refers(token)
          /\ \A j \in DOMAIN event.tokens : j > i => ~Refers(event.tokens[j])
    \/ /\ \A i \in DOMAIN event.tokens : ~Refers(event.tokens[i])
       /\ ~event.spaced /\ token = event.whole /\ Refers(token)

Mentioned(event) ==
    {event.whole} \union {event.tokens[i] : i \in DOMAIN event.tokens}

Init ==
    /\ files = [n \in Names |-> NoFile]
    /\ shown = TextContext

(* insert *)
Insert(name, total) ==
    /\ files' = [files EXCEPT ![name] = total]
    /\ UNCHANGED shown

(* build: the snippet if the reference is to a file of the map, else the   *)
(* event's text.                                                           *)
Build(event) ==
    /\ \/ \E token \in Mentioned(event) :
             /\ IsReference(event, token)
             /\ files[token.name] # NoFile
             /\ shown' = Snippet(token.name, token.line)
       \/ /\ \A token \in Mentioned(event) :
                IsReference(event, token) => files[token.name] = NoFile
          /\ shown' = TextContext
    /\ UNCHANGED files

Next ==
    \/ \E n \in Names, total \in Lengths : Insert(n, total)
    \/ \E event \in Events : Build(event)

Spec == Init /\ [][Next]_vars

-----------------------------------------------------------------------------
(* The window lies within the file, contains the line asked for, clamped,  *)
(* and is never longer than Window; in a file of Window lines or more it   *)
(* has exactly Window lines.                                               *)
Fits(line, total, first, last) ==
    /\ 1 <= first /\ first <= Clamp(line, total)
    /\ Clamp(line, total) <= last /\ last <= total
    /\ last - first < Window
    /\ total >= Window => last - first + 1 = Window

(* Every snippet's window fits, whatever line the event names (context      *)
(* builder window_snippet: start, end and the correction at the file's end).*)
WindowFits ==
    shown.total > 0 => Fits(shown.line, shown.total, shown.first, shown.last)

(* "window < 50 lines (small files): all lines" (context_builder:80).       *)
SmallFileWhole ==
    shown.total \in 1..Window - 1 => shown.first = 1 /\ shown.last = shown.total

TooLarge(token) == token.path /\ token.line > MaxLine

(* The event with a word in place of each path:line that is too large. *)
Worded(event) ==
    [event EXCEPT !.tokens = [i \in DOMAIN event.tokens |->
        LET token == event.tokens[i]
        IN  IF TooLarge(token) THEN [token EXCEPT !.path = FALSE] ELSE token]]

(* A path:line whose number is too large counts no more than a word: what    *)
(* an event gets is what it would get with words in place of them, so that  *)
(* the last good reference before them still wins (parse_token,            *)
(* extract_file_line).                                                     *)
TooLargeIsNoReference ==
    [][\A event \in Events :
          (\E i \in DOMAIN event.tokens : TooLarge(event.tokens[i])) /\ Build(event)
          => Build(Worded(event))]_vars
====
