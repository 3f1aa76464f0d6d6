---- MODULE FileSnippetBuilderProofs ----
(***************************************************************************)
(* The arithmetic of window_snippet is right for every window, line number *)
(* and file length, and a number that is too large is passed over.         *)
(***************************************************************************)
EXTENDS FileSnippetBuilder, TLAPS

LEMMA HalfBounds == Half \in Nat /\ 2 * Half <= Window /\ Window <= 2 * Half + 1
  BY SnippetAssumption DEF Half

(* The window of any line in any file with a line in it fits: it is in the  *)
(* file, contains the clamped line, and is short only in a short file      *)
(* (window_snippet).                                                       *)
THEOREM EveryWindowFits ==
    ASSUME NEW line \in Nat, NEW total \in Nat \ {0}
    PROVE  Fits(line, total, FirstLine(line, total), LastLine(line, total))
  <1>1. Clamp(line, total) \in 1..total
    BY DEF Clamp
  <1>2. Window \in Nat \ {0}
    BY SnippetAssumption
  <1> HIDE DEF Clamp, Half
  <1>3. /\ Start(line, total) \in 1..Clamp(line, total)
        /\ Clamp(line, total) - Start(line, total) <= Half
    BY <1>1, HalfBounds DEF Start
  <1>4. Half < Window
    BY <1>2, HalfBounds
  <1> HIDE DEF Start
  <1>5. /\ End(line, total) \in Clamp(line, total)..total
        /\ End(line, total) - Start(line, total) < Window
        /\ \/ End(line, total) = total
           \/ End(line, total) - Start(line, total) + 1 = Window
    BY <1>1, <1>2, <1>3, <1>4, HalfBounds DEF End
  <1> HIDE DEF End
  <1>6. CASE Short(line, total)
    <2>1. /\ FirstLine(line, total) = total - Window + 1
          /\ LastLine(line, total) = total
          /\ End(line, total) = total /\ total >= Window
          /\ FirstLine(line, total) < Start(line, total)
      BY <1>1, <1>2, <1>3, <1>5, <1>6 DEF FirstLine, LastLine, Short
    <2> QED
      BY <1>1, <1>2, <1>3, <2>1 DEF Fits
  <1>7. CASE ~Short(line, total)
    <2>1. FirstLine(line, total) = Start(line, total) /\ LastLine(line, total) = End(line, total)
      BY <1>7 DEF FirstLine, LastLine
    <2>2. total >= Window => End(line, total) - Start(line, total) + 1 = Window
      BY <1>1, <1>2, <1>3, <1>5, <1>7 DEF Short
    <2> QED
      BY <1>1, <1>2, <1>3, <1>5, <2>1, <2>2 DEF Fits
  <1> QED
    BY <1>6, <1>7

LEMMA ReferenceTyped ==
    ASSUME NEW event \in Events, NEW token \in Mentioned(event)
    PROVE  token \in Tokens
  <1>1. event.tokens \in Seq(Tokens) /\ event.whole \in Tokens
    BY EventsAssumption
  <1> QED
    BY <1>1 DEF Mentioned

IInv == TypeOK /\ WindowFits

LEMMA SnippetTyped ==
    ASSUME NEW name \in Names, NEW line \in Nat, files[name] \in Nat
    PROVE  /\ Snippet(name, line) \in Contexts
           /\ Snippet(name, line).total > 0 =>
                Fits(line, Snippet(name, line).total,
                     Snippet(name, line).first, Snippet(name, line).last)
           /\ Snippet(name, line).line = line
  <1>1. CASE files[name] = 0
    BY <1>1 DEF Snippet, Contexts
  <1>2. CASE files[name] # 0
    <2>1. Fits(line, files[name], FirstLine(line, files[name]), LastLine(line, files[name]))
      BY <1>2, EveryWindowFits
    <2>2. FirstLine(line, files[name]) \in Nat /\ LastLine(line, files[name]) \in Nat
      <3>1. /\ FirstLine(line, files[name]) \in Int
            /\ LastLine(line, files[name]) \in Int
        BY <1>2, SnippetAssumption, HalfBounds DEF FirstLine, LastLine, Start, End, Clamp
      <3> QED
        BY <1>2, <2>1, <3>1 DEF Fits, Clamp
    <2> QED
      BY <1>2, <2>1, <2>2 DEF Snippet, Contexts
  <1> QED
    BY <1>1, <1>2

(* Every context the builder returns is the event's text or a window of its *)
(* file that fits (FileSnippetBuilder::build).                             *)
THEOREM WindowsFit == Spec => [](TypeOK /\ WindowFits)
  <1>1. Init => IInv
    BY DEF Init, IInv, TypeOK, WindowFits, Contexts, TextContext
  <1>2. IInv /\ [Next]_vars => IInv'
    <2> SUFFICES ASSUME IInv, [Next]_vars PROVE IInv'
      OBVIOUS
    <2>1. ASSUME NEW n \in Names, NEW total \in Lengths, Insert(n, total)
          PROVE  IInv'
      BY <2>1 DEF Insert, IInv, TypeOK, WindowFits
    <2>2. ASSUME NEW event \in Events, Build(event)
          PROVE  IInv'
      <3>1. ASSUME NEW token \in Mentioned(event), files[token.name] # NoFile,
                   shown' = Snippet(token.name, token.line)
            PROVE  shown' \in Contexts /\ WindowFits'
        <4>1. token \in Tokens
          BY ReferenceTyped
        <4>2. token.name \in Names /\ token.line \in Nat
          BY <4>1 DEF Tokens
        <4>3. files[token.name] \in Nat
          BY <3>1, <4>2, SnippetAssumption DEF IInv, TypeOK
        <4>4. /\ shown' \in Contexts
              /\ shown'.line = token.line
              /\ shown'.total > 0 =>
                   Fits(token.line, shown'.total, shown'.first, shown'.last)
          BY <3>1, <4>2, <4>3, SnippetTyped
        <4> QED
          BY <4>4 DEF WindowFits, Fits, Clamp
      <3>2. ASSUME shown' = TextContext
            PROVE  shown' \in Contexts /\ WindowFits'
        BY <3>2 DEF TextContext, Contexts, WindowFits
      <3>3. \/ \E token \in Mentioned(event) :
                  files[token.name] # NoFile /\ shown' = Snippet(token.name, token.line)
            \/ shown' = TextContext
        BY <2>2, Zenon DEF Build
      <3>4. shown' \in Contexts /\ WindowFits'
        BY <3>1, <3>2, <3>3
      <3>5. files' = files
        BY <2>2, Zenon DEF Build
      <3> QED
        BY <3>4, <3>5 DEF IInv, TypeOK
    <2>3. CASE UNCHANGED vars
      BY <2>3 DEF vars, IInv, TypeOK, WindowFits
    <2> QED
      BY <2>1, <2>2, <2>3 DEF Next
  <1> QED
    BY <1>1, <1>2, PTL DEF Spec, IInv

-----------------------------------------------------------------------------
LEMMA WordedSame ==
    ASSUME NEW event \in Events
    PROVE  /\ DOMAIN Worded(event).tokens = DOMAIN event.tokens
           /\ Worded(event).spaced = event.spaced /\ Worded(event).whole = event.whole
           /\ \A i \in DOMAIN event.tokens :
                 /\ Refers(Worded(event).tokens[i]) <=> Refers(event.tokens[i])
                 /\ Refers(event.tokens[i]) =>
                       Worded(event).tokens[i] = event.tokens[i]
  <1>1. /\ event \in [tokens: Seq(Tokens), spaced: BOOLEAN, whole: Tokens]
        /\ \A i \in DOMAIN event.tokens : event.tokens[i] \in Tokens
    BY EventsAssumption
  <1>2. /\ DOMAIN Worded(event).tokens = DOMAIN event.tokens
        /\ Worded(event).spaced = event.spaced /\ Worded(event).whole = event.whole
    BY <1>1 DEF Worded
  <1>3. ASSUME NEW i \in DOMAIN event.tokens
        PROVE  /\ Refers(Worded(event).tokens[i]) <=> Refers(event.tokens[i])
               /\ Refers(event.tokens[i]) =>
                     Worded(event).tokens[i] = event.tokens[i]
    <2> DEFINE token == event.tokens[i]
    <2>1. token \in [path: BOOLEAN, name: Names, line: Nat]
      BY <1>1 DEF Tokens
    <2>2. Worded(event).tokens[i] =
             IF TooLarge(token) THEN [token EXCEPT !.path = FALSE] ELSE token
      BY <1>1 DEF Worded
    <2>3. CASE TooLarge(token)
      <3>1. Worded(event).tokens[i].path = FALSE
        BY <2>1, <2>2, <2>3
      <3>2. ~Refers(token)
        BY <2>1, <2>3, SnippetAssumption DEF TooLarge, Refers
      <3> QED
        BY <3>1, <3>2 DEF Refers
    <2>4. CASE ~TooLarge(token)
      BY <2>2, <2>4
    <2> QED
      BY <2>3, <2>4
  <1> QED
    BY <1>2, <1>3

LEMMA WordedReference ==
    ASSUME NEW event \in Events, NEW token
    PROVE  IsReference(Worded(event), token) <=> IsReference(event, token)
  <1>1. (\E i \in DOMAIN Worded(event).tokens :
            /\ token = Worded(event).tokens[i] /\ Refers(token)
            /\ \A j \in DOMAIN Worded(event).tokens :
                  j > i => ~Refers(Worded(event).tokens[j]))
        <=>
        (\E i \in DOMAIN event.tokens :
            /\ token = event.tokens[i] /\ Refers(token)
            /\ \A j \in DOMAIN event.tokens : j > i => ~Refers(event.tokens[j]))
    BY WordedSame
  <1>2. (\A i \in DOMAIN Worded(event).tokens : ~Refers(Worded(event).tokens[i]))
        <=> (\A i \in DOMAIN event.tokens : ~Refers(event.tokens[i]))
    BY WordedSame
  <1> QED
    BY <1>1, <1>2, WordedSame DEF IsReference

LEMMA ReferenceMentioned ==
    ASSUME NEW event, NEW token, IsReference(event, token)
    PROVE  token \in Mentioned(event)
  BY DEF IsReference, Mentioned

(* A path:line whose number is too large for a usize is passed over like a   *)
(* word, in any event (FileSnippetBuilder::parse_token, extract_file_line). *)
THEOREM TooLargePassedOver == Spec => TooLargeIsNoReference
  <1>1. ASSUME NEW event \in Events, Build(event)
        PROVE  Build(Worded(event))
    <2>1. files' = files
      BY <1>1, Zenon DEF Build
    <2>2. CASE \E token \in Mentioned(event) :
                  /\ IsReference(event, token)
                  /\ files[token.name] # NoFile
                  /\ shown' = Snippet(token.name, token.line)
      <3>1. PICK token \in Mentioned(event) :
                  /\ IsReference(event, token)
                  /\ files[token.name] # NoFile
                  /\ shown' = Snippet(token.name, token.line)
        BY <2>2
      <3>2. IsReference(Worded(event), token)
        BY <3>1, WordedReference
      <3>3. token \in Mentioned(Worded(event))
        BY <3>2, ReferenceMentioned
      <3> QED
        BY <2>1, <3>1, <3>2, <3>3 DEF Build
    <2>3. CASE /\ \A token \in Mentioned(event) :
                     IsReference(event, token) => files[token.name] = NoFile
               /\ shown' = TextContext
      <3>1. \A token \in Mentioned(Worded(event)) :
               IsReference(Worded(event), token) => files[token.name] = NoFile
        BY <2>3, WordedReference, ReferenceMentioned
      <3> QED
        BY <2>1, <2>3, <3>1 DEF Build
    <2> QED
      BY <1>1, <2>2, <2>3, Zenon DEF Build
  <1>2. [Next]_vars =>
           [\A event \in Events :
               (\E i \in DOMAIN event.tokens : TooLarge(event.tokens[i])) /\ Build(event)
               => Build(Worded(event))]_vars
    BY <1>1
  <1> QED
    BY <1>2, PTL DEF Spec, TooLargeIsNoReference

(* Whatever is inserted and built, the map holds files and what build gave  *)
(* is a context (FileSnippetBuilder::insert, build).                       *)
THEOREM TypeCorrect == Spec => []TypeOK
  BY WindowsFit, PTL
====
