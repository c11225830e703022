------------------------------ MODULE ToolCalls ------------------------------
(***************************************************************************)
(* Finding a tool call in generated text (tooling.cpp).  The text is a     *)
(* sequence of JSON pieces: braces, a name key with its string value (the  *)
(* piece is the name), a broken name key, an arguments key with its colon, *)
(* the same word without one, any other string.  Strings and their escapes *)
(* are pieces, so a brace in a string is no brace; that is what the code's *)
(* skipping of strings comes to.                                           *)
(***************************************************************************)
EXTENDS Integers, Sequences, FiniteSets

CONSTANTS
  ToolNames,    \* names of the toolset's tools
  OtherNames,   \* names that are no tool's
  ToolTexts     \* generated texts

VARIABLE tc

Names == ToolNames \cup OtherNames
NoSpan == [b |-> 0, e |-> 0]
NoTool == "none"

TCInit == tc = [pc |-> "idle"]

\* find_json_tool_name_key from position p on: braces are counted from p
FindName(t, p) ==
  LET scan[q \in p .. Len(t) + 1] ==
        IF q = p THEN [at |-> q, depth |-> 0]
        ELSE LET s == scan[q - 1] IN
             [at |-> q, depth |-> CASE t[q - 1] = "{" -> s.depth + 1
                                    [] t[q - 1] = "}" /\ s.depth # 0 -> s.depth - 1
                                    [] OTHER -> s.depth]
      hits == {q \in p .. Len(t) : t[q] \in Names \cup {"badname"}}
      q == CHOOSE x \in hits : \A y \in hits : x <= y
  IN  IF hits = {} \/ t[q] = "badname" THEN [ok |-> FALSE, at |-> 0, depth |-> 0]
      ELSE [ok |-> TRUE, at |-> q, depth |-> scan[q].depth]

\* the end of the object that opens at p, 0 if it never closes
Closing(t, p) ==
  LET depth(q) == Cardinality({i \in p .. q : t[i] = "{"}) - Cardinality({i \in p .. q : t[i] = "}"})
      ends == {q \in p .. Len(t) : depth(q) = 0}
  IN  IF ends = {} THEN 0 ELSE CHOOSE q \in ends : \A r \in ends : q <= r

\* find_json_object_key from p on: the first key with a colon decides
FindArguments(t, p) ==
  LET hits == {q \in p .. Len(t) : t[q] = "args:"}
      q == CHOOSE x \in hits : \A y \in hits : x <= y
  IN  IF hits = {} \/ q = Len(t) \/ t[q + 1] # "{" \/ Closing(t, q + 1) = 0 THEN NoSpan
      ELSE [b |-> q + 1, e |-> Closing(t, q + 1)]

\* arguments behind the name, or, for a name at the top of its object, anywhere
ArgumentsOf(t, f) ==
  LET after == FindArguments(t, f.at + 1)
  IN  IF after # NoSpan THEN after ELSE IF f.depth = 1 THEN FindArguments(t, 1) ELSE NoSpan

\* find_tool_by_name
FindTool(name) == IF name \in ToolNames THEN name ELSE NoTool

ParseBegin(t) ==
  /\ tc.pc = "idle" /\ t # <<>>
  /\ tc' = [pc |-> "scan", text |-> t, at |-> 1, best |-> NoTool, args |-> NoSpan, depth |-> Len(t) + 1,
            first |-> NoTool, tool |-> NoTool, status |-> "NOT_FOUND"]

ParseCandidate_Last ==
  LET f == FindName(tc.text, tc.at)
      args == ArgumentsOf(tc.text, f)
  IN  /\ tc.pc = "scan" /\ tc.at <= Len(tc.text) /\ f.ok
      /\ tc' = [tc EXCEPT !.at = f.at + 1,
                  !.best = IF FindTool(tc.text[f.at]) # NoTool /\ args # NoSpan THEN tc.text[f.at] ELSE @,
                  !.args = IF FindTool(tc.text[f.at]) # NoTool /\ args # NoSpan THEN args ELSE @,
                  !.first = IF @ = NoTool /\ args = NoSpan THEN FindTool(tc.text[f.at]) ELSE @]

\* one name of the text: the least deep tool with arguments is kept
ParseCandidate ==
  LET f      == FindName(tc.text, tc.at)
      tool   == FindTool(tc.text[f.at])
      args   == ArgumentsOf(tc.text, f)
      better == tool # NoTool /\ args # NoSpan /\ (tc.best = NoTool \/ f.depth < tc.depth)
  IN  /\ tc.pc = "scan" /\ tc.at <= Len(tc.text) /\ f.ok
      /\ tc' = [tc EXCEPT !.at = f.at + 1,
                  !.pc = IF better /\ f.depth <= 1 THEN "result" ELSE @,
                  !.best = IF better THEN tool ELSE @, !.args = IF better THEN args ELSE @,
                  !.depth = IF better THEN f.depth ELSE @,
                  !.first = IF tool # NoTool /\ args = NoSpan /\ @ = NoTool THEN tool ELSE @]

\* the rest of toolset_parse_call
ParseEnd ==
  /\ tc.pc = "result" \/ (tc.pc = "scan" /\ (tc.at > Len(tc.text) \/ ~FindName(tc.text, tc.at).ok))
  /\ tc' = [tc EXCEPT !.pc = "done", !.tool = IF tc.best # NoTool THEN tc.best ELSE tc.first,
                      !.status = CASE tc.best # NoTool -> "OK" [] tc.first # NoTool -> "INVALID" [] OTHER -> @]

TCNext == (\E t \in ToolTexts : ParseBegin(t)) \/ ParseCandidate \/ ParseEnd
TCSpec == TCInit /\ [][TCNext]_tc

-----------------------------------------------------------------------------
Occurs(piece) == {i \in DOMAIN tc.text : tc.text[i] = piece}
Known == UNION {Occurs(n) : n \in ToolNames}
Before(q) == {i \in DOMAIN tc.text : i < q}
TopLevel(q) == Cardinality({i \in Before(q) : tc.text[i] = "{"}) - Cardinality({i \in Before(q) : tc.text[i] = "}"}) = 1

\* What the parser reports is in the text: the tool by its name, the arguments
\* as one whole object behind an arguments key; a tool is missed only when no
\* name key that can be read names one.
ReportedIsThere ==
  /\ tc.tool # NoTool => Occurs(tc.tool) # {}
  /\ tc.status = "OK" => /\ tc.args.b > 1 /\ tc.text[tc.args.b - 1] = "args:" /\ tc.text[tc.args.b] = "{"
                         /\ tc.args.e = Closing(tc.text, tc.args.b)
  /\ tc.tool = NoTool => \A i \in Known : \E j \in Occurs("badname") : j < i

\* An object whose first known name stands at its top level, and which has one
\* arguments object, is read as a call of that tool with those arguments,
\* whichever of the two comes first and whatever names follow.
TopLevelCallWins ==
  \A i \in Known :
    /\ tc.text[1] = "{" /\ Closing(tc.text, 1) = Len(tc.text)
    /\ \A j \in Known : i <= j
    /\ TopLevel(i) /\ Occurs("badname") = {} /\ \A j \in Before(i) : tc.text[j] \notin OtherNames
    /\ Cardinality(Occurs("args:")) = 1 /\ FindArguments(tc.text, 1) # NoSpan
    => tc.tool = tc.text[i] /\ tc.status = "OK" /\ tc.args = FindArguments(tc.text, 1)

\* What parse_tool_call reports is what the text says (tooling.cpp:389).
ToolCallsFaithful == tc.pc = "done" => ReportedIsThere /\ TopLevelCallWins
=============================================================================
