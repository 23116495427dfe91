--------------------------- MODULE CommandMatcher ---------------------------
(***************************************************************************)
(* How vtysh finds the command of a line (wgshell/vtysh/command.c).  A     *)
(* typed line may abbreviate keywords (cmd_execute_command); a line of the *)
(* configuration file may not (cmd_execute_command_strict).  Both filter   *)
(* the commands of the node word by word.  A command that is found writes  *)
(* its line into the configuration, from where it is found again, or lost, *)
(* at the next load (vtysh_config_from_file).                              *)
(*                                                                         *)
(* A command is a sequence of places; a place is the set of what may stand *)
(* there: keywords, Variable, Option or Address.  No installed command has *)
(* ranges, prefixes, IPv6 addresses or ".VARARG", so their cases are left  *)
(* out.  A word that looks like an address is known by the numbers between *)
(* its dots, any other by the keywords that it begins: two words that      *)
(* begin the same ones are alike.                                          *)
(***************************************************************************)
(* While a line is typed, "?" describes what may come next                 *)
(* (cmd_describe_command) and Tab completes a keyword                      *)
(* (cmd_complete_command); both repeat the loop of cmd_execute_command in  *)
(* code of their own, and have to agree with it.                           *)
(***************************************************************************)
EXTENDS Integers, Sequences, FiniteSets, SequencesExt, FiniteSetsExt

CONSTANTS
  Table,      \* commands: name -> sequence of places
  Writers,    \* the commands that write a line
  Checked,    \* command and place: choices the command compares with its keywords
  Link,       \* wg_link, which writes "link-down" for all but "link-up"
  Begins,     \* word -> the keywords that begin with it
  Values,     \* words that are neither keywords nor addresses
  Fields,     \* word that looks like an address -> its numbers
  MaxLines    \* bound: lines in the configuration

Variable == "WORD"
Option   == "[WORD]"
Address  == "A.B.C.D"
NotKeywords == {Variable, Option, Address}

Commands == DOMAIN Table
Words    == DOMAIN Begins \cup Values \cup DOMAIN Fields
IsKeyword(d) == d \notin NotKeywords

ASSUME MatcherAssumption ==
  /\ IsFiniteSet(Commands) /\ Writers \cup {Link} \subseteq Commands
  /\ \A c \in Commands : /\ Len(Table[c]) \in Nat \ {0} /\ DOMAIN Table[c] = 1 .. Len(Table[c])
                         /\ \A i \in DOMAIN Table[c] : Table[c][i] # {} /\ IsFiniteSet(Table[c][i])
  /\ \A w \in DOMAIN Fields : Fields[w] \in Seq(Int) \ {<<>>}
  /\ MaxLines \in Nat

VARIABLES
  line,     \* the words typed so far
  loose,    \* what the loop of cmd_execute_command has made of them
  strict,   \* what the loop of cmd_execute_command_strict would make of them
  top       \* the configuration: text, command, and whether it was typed in full

vars == <<line, loose, strict, top>>

\* The loop: the words it has seen, the commands that are left, and whether it
\* returned CMD_ERR_AMBIGUOUS.
Start == [index |-> 0, cand |-> Commands, ambiguous |-> FALSE]

Init == line = <<>> /\ loose = Start /\ strict = Start /\ top = {}

----------------------------------------------------------------------------
(* enum match_type. *)
NoMatch == 0
ExtendMatch == 1
Ipv4Match == 2
PartlyMatch == 3
ExactMatch == 4

KeywordsOf(w) == IF w \in DOMAIN Begins THEN Begins[w] ELSE {}

\* A keyword begins with itself, and no word is empty.
ASSUME BeginsAssumption ==
  /\ \A c \in Commands : \A i \in DOMAIN Table[c] : \A d \in Table[c][i] : IsKeyword(d) => d \in KeywordsOf(d)
  /\ "" \notin Words

\* cmd_ipv4_match.  A number is looked at when the scanner reaches the dot
\* behind it, and there the dot comes first: a fourth dot or two in a row are
\* refused, and a word that ends with its dot may go on, whatever its last
\* number is.  An empty number reads as 0.
Empty == -1
Going == 5

Verdict(f, i) ==
  LET n == Len(f)
  IN  CASE i < n /\ (i > 3 \/ (f[i + 1] = Empty /\ i + 1 < n))  -> NoMatch
        [] i < n /\ i <= 3 /\ f[i + 1] = Empty /\ i + 1 = n      -> PartlyMatch
        [] OTHER -> IF f[i] > 255 THEN NoMatch ELSE Going
CmdIpv4Match(f) ==
  LET stops == {i \in DOMAIN f : Verdict(f, i) # Going}
  IN  IF stops # {} THEN Verdict(f, Min(stops)) ELSE IF Len(f) < 4 THEN PartlyMatch ELSE ExactMatch

\* A typed address may be incomplete.
IsAddress(w, exact) ==
  w \in DOMAIN Fields
    /\ CmdIpv4Match(Fields[w]) \in (IF exact THEN {ExactMatch} ELSE {PartlyMatch, ExactMatch})

\* How word w matches d, in cmd_filter_by_string and cmd_filter_by_completion.
MatchType(d, w, exact) ==
  CASE d = Address -> IF IsAddress(w, exact) THEN Ipv4Match ELSE NoMatch
    [] d \in {Variable, Option} -> ExtendMatch
    [] IsKeyword(d) /\ d = w -> ExactMatch
    [] IsKeyword(d) /\ d # w ->
         IF ~exact /\ d \in KeywordsOf(w) THEN PartlyMatch ELSE NoMatch

Place(c, i) == IF i <= Len(Table[c]) THEN Table[c][i] ELSE {}

\* The filters: the commands that match at place i, and the best match of all.
Filter(cand, i, w, exact) ==
  {c \in cand : \E d \in Place(c, i) : MatchType(d, w, exact) # NoMatch}
BestMatch(cand, i, w, exact) ==
  Max({NoMatch} \cup {MatchType(d, w, exact) : d \in UNION {Place(c, i) : c \in cand}})

\* is_cmd_ambiguous: two keywords begin with w; otherwise commands that match
\* in another way than the best one are dropped.
PartlyMatched(cand, i, w) ==
  {d \in UNION {Place(c, i) : c \in cand} : IsKeyword(d) /\ d \in KeywordsOf(w)}
IsAmbiguous(cand, i, w, type) == type = PartlyMatch /\ Cardinality(PartlyMatched(cand, i, w)) > 1
Agrees(d, w, type) ==
  CASE type = ExactMatch  -> IsKeyword(d) /\ d = w
    [] type = PartlyMatch -> IsKeyword(d) /\ d \in KeywordsOf(w)
    [] type = Ipv4Match   -> d = Address
    [] type = ExtendMatch -> ~IsKeyword(d)
    [] type = NoMatch     -> FALSE

\* Mutant: commands are not dropped.
KeepAll(cand, i, w, type) == cand

Keep(cand, i, w, type) == {c \in cand : \E d \in Place(c, i) : Agrees(d, w, type)}

\* cmd_cmdsize: the words before an optional one.
Cmdsize(c) ==
  LET options == {i \in DOMAIN Table[c] : Table[c][i] = {Option}}
  IN  IF options = {} THEN Len(Table[c]) ELSE Min(options) - 1

\* Places where one word can keep both of two commands, and commands that one
\* line of n words can keep.
Free == {Variable, Option}
Shared(a, b) == a \cap b # {} \/ (a \cap Free # {} /\ b \cap Free # {})
Alike(c, e, n) == \A i \in 1 .. n : Shared(Place(c, i), Place(e, i))

\* What commands have to keep to, as the installed ones do: no line of words is
\* enough for two of them; where a variable of a command stands, one like it has no
\* address, and a variable only as an alternative to the same keyword; a variable is
\* an alternative to one keyword at most; nothing but options follows an option.
ASSUME TableAssumption ==
  /\ \A c, e \in Commands : \A n \in 0 .. Len(Table[c]) :
       c # e /\ Alike(c, e, n) => ~(n >= Cmdsize(c) /\ n >= Cmdsize(e))
  /\ \A c, e \in Commands : \A n \in DOMAIN Table[c] :
       Alike(c, e, n - 1) /\ Table[c][n] \cap Free # {} =>
         /\ Address \notin Place(e, n)
         /\ Place(e, n) \cap Free # {} => Table[c][n] \ Free \subseteq Place(e, n)
  /\ \A c \in Commands : \A i \in DOMAIN Table[c] :
       /\ Table[c][i] \cap NotKeywords # {} => \A d, e \in Table[c][i] \ NotKeywords : d = e
       /\ Table[c][i] = {Option} => \A j \in i .. Len(Table[c]) : Table[c][j] = {Option}

\* One turn of the loop over the words.
Step(m, w, exact) ==
  LET i    == m.index + 1
      type == BestMatch(m.cand, i, w, exact)
      cand == Filter(m.cand, i, w, exact)
  IN  IF m.ambiguous THEN m
      ELSE [index |-> i, cand |-> Keep(cand, i, w, type), ambiguous |-> IsAmbiguous(cand, i, w, type)]

\* Results that are not a command.
Failed == {"CMD_ERR_AMBIGUOUS", "CMD_ERR_INCOMPLETE", "CMD_ERR_NO_MATCH"}

\* Results, words and the model's names for what is not a keyword are told apart.
ASSUME NamesAssumption ==
  /\ Commands \cap Failed = {} /\ Words \cap NotKeywords = {} /\ DOMAIN Begins \cap DOMAIN Fields = {}
  /\ \A c \in Commands : \A i \in DOMAIN Table[c] : Table[c][i] \cap (Failed \cup {"<cr>"}) = {}

\* Mutant: a command is run although words are missing.
ResultIncomplete(m) ==
  IF m.cand # {} /\ ~m.ambiguous THEN CHOOSE c \in m.cand : TRUE ELSE "CMD_ERR_NO_MATCH"

\* After the loop: the one command that has all its words.
Result(m) ==
  LET complete == {c \in m.cand : m.index >= Cmdsize(c)}
  IN  CASE m.ambiguous \/ Cardinality(complete) > 1              -> "CMD_ERR_AMBIGUOUS"
        [] ~m.ambiguous /\ m.cand = {}                          -> "CMD_ERR_NO_MATCH"
        [] ~m.ambiguous /\ m.cand # {} /\ complete = {}         -> "CMD_ERR_INCOMPLETE"
        [] ~m.ambiguous /\ Cardinality(complete) = 1            -> CHOOSE c \in complete : TRUE

\* cmd_execute_command_strict for a line of the file.
ExecuteStrict(words) ==
  LET loop[n \in 0 .. Len(words)] == IF n = 0 THEN Start ELSE Step(loop[n - 1], words[n], TRUE)
  IN  Result(loop[Len(words)])

----------------------------------------------------------------------------
(* "?" and Tab, with w being typed or nothing yet, after the words of m.   *)
Nothing == ""

\* cmd_entry_function: only keywords are completed.
EntryFunction(w, d) == IsKeyword(d) /\ (w = Nothing \/ d \in KeywordsOf(w))

\* cmd_entry_function_desc: variables and options always match.
EntryFunctionDesc(w, d) ==
  CASE d = Address -> w = Nothing \/ IsAddress(w, FALSE)
    [] d \in {Variable, Option} -> TRUE
    [] IsKeyword(d) -> w = Nothing \/ d \in KeywordsOf(w)

\* Mutant: a command whose words are used up is not described.
DescribeCommandNoCr(m, w) ==
  LET cand  == IF w = Nothing THEN m.cand ELSE Filter(m.cand, m.index + 1, w, FALSE)
      shown == {d \in UNION {Place(c, m.index + 1) : c \in cand} : EntryFunctionDesc(w, d)}
  IN  CASE m.ambiguous                    -> [status |-> "CMD_ERR_AMBIGUOUS", shown |-> {}]
        [] ~m.ambiguous /\ shown = {}     -> [status |-> "CMD_ERR_NO_MATCH", shown |-> {}]
        [] ~m.ambiguous /\ shown # {}     -> [status |-> "CMD_SUCCESS", shown |-> shown]

\* cmd_describe_command: the words that may stand here, and "<cr>" when a
\* command has no place left; not when it has an option left.
DescribeCommand(m, w) ==
  LET cand  == IF w = Nothing THEN m.cand ELSE Filter(m.cand, m.index + 1, w, FALSE)
      ended == w = Nothing /\ \E c \in cand : Len(Table[c]) = m.index
      shown == {d \in UNION {Place(c, m.index + 1) : c \in cand} : EntryFunctionDesc(w, d)}
               \cup (IF ended THEN {"<cr>"} ELSE {})
  IN  CASE m.ambiguous                    -> [status |-> "CMD_ERR_AMBIGUOUS", shown |-> {}]
        [] ~m.ambiguous /\ shown = {}     -> [status |-> "CMD_ERR_NO_MATCH", shown |-> {}]
        [] ~m.ambiguous /\ shown # {}     -> [status |-> "CMD_SUCCESS", shown |-> shown]

\* cmd_lcd: what all of ds begin with, as far as words tell.
Lcd(ds) ==
  LET common == {v \in DOMAIN Begins : ds \subseteq Begins[v]}
  IN  CHOOSE v \in common : \A u \in common : Begins[v] \subseteq Begins[u]

\* Mutant: the first of several keywords is taken.
CompleteCommandFirst(m, w) ==
  LET matched == {d \in UNION {Place(c, m.index + 1) : c \in m.cand} : EntryFunction(w, d)}
  IN  IF m.ambiguous \/ matched = {} THEN [status |-> "CMD_ERR_NO_MATCH", words |-> {}]
      ELSE [status |-> "CMD_COMPLETE_FULL_MATCH", words |-> {CHOOSE d \in matched : TRUE}]

\* cmd_complete_command: all keywords that fit, or their common beginning if
\* that is more than was typed.
CompleteCommand(m, w) ==
  LET matched == {d \in UNION {Place(c, m.index + 1) : c \in m.cand} : EntryFunction(w, d)}
      longer  == w # Nothing /\ Begins[Lcd(matched)] # Begins[w]
      Answer(status, words) == [status |-> status, words |-> words]
  IN  CASE m.ambiguous -> Answer("CMD_ERR_AMBIGUOUS", {})
        [] ~m.ambiguous /\ matched = {} ->
             Answer(IF w = Nothing THEN "CMD_ERR_NOTHING_TODO" ELSE "CMD_ERR_NO_MATCH", {})
        [] ~m.ambiguous /\ Cardinality(matched) = 1 -> Answer("CMD_COMPLETE_FULL_MATCH", matched)
        [] ~m.ambiguous /\ Cardinality(matched) > 1 ->
             IF longer THEN Answer("CMD_COMPLETE_MATCH", {Lcd(matched)})
                       ELSE Answer("CMD_COMPLETE_LIST_MATCH", matched)

----------------------------------------------------------------------------
IsChoice(c, i) == Cardinality(Table[c][i]) > 1

\* The only choice of wg_link.
ASSUME LinkAssumption ==
  \A i \in DOMAIN Table[Link] : IsChoice(Link, i) => Table[Link][i] = {"link-up", "link-down"}

\* Mutant: the words go into the configuration as they were typed.
TextAsTyped(c, words) == words

\* What the command writes: its keywords in full and its arguments as typed; a
\* choice is an argument.
Text(c, words) ==
  [i \in DOMAIN words |->
     LET d == CHOOSE d \in Table[c][i] : TRUE
     IN  CASE c = Link /\ IsChoice(c, i) -> IF words[i] = "link-up" THEN "link-up" ELSE "link-down"
           [] ~IsChoice(c, i) /\ IsKeyword(d) -> d
           [] OTHER -> words[i]]

\* The command's own check of its choices.
Accepts(c, words) ==
  \A i \in DOMAIN words : <<c, i>> \in Checked => words[i] \in Table[c][i]

\* Every choice and every address of the line is complete.
TypedInFull(c, words) ==
  \A i \in DOMAIN words :
    /\ words[i] \in DOMAIN Fields => IsAddress(words[i], TRUE)
    /\ IsChoice(c, i) /\ Variable \notin Table[c][i] => words[i] \in Table[c][i]

\* Words that neither begin a keyword of the commands that are left nor look like
\* an address where they want one are all alike.
NextWords ==
  LET places == UNION {Place(c, Len(line) + 1) : c \in loose.cand}
  IN  {w \in Words : w \in Values \/ KeywordsOf(w) \cap places # {}
                     \/ (Address \in places /\ w \in DOMAIN Fields)}

\* A word is typed; nothing that follows makes a command of a line that no
\* command begins with.
Type(w) ==
  /\ loose.cand # {} /\ ~loose.ambiguous /\ Cardinality(top) < MaxLines
  /\ line' = Append(line, w)
  /\ loose' = Step(loose, w, FALSE)
  /\ strict' = Step(strict, w, TRUE)
  /\ UNCHANGED top

\* "?", with w being typed: vtysh_rl_describe shows the words or an error, and
\* the line stays as it is.
RlDescribe(w) ==
  LET answer == DescribeCommand(loose, w)
  IN  IF answer.status = "CMD_SUCCESS" THEN answer.shown ELSE {answer.status}

\* Tab, with w being typed: command_generator and new_completion.  A keyword
\* that is the only match takes the place of w, with a space behind it; any
\* other answer leaves the word unfinished.  Nothing is proposed on an empty line.
Tab(w) ==
  LET answer == CompleteCommand(loose, w)
  IN  /\ Cardinality(top) < MaxLines
      /\ line # <<>> \/ w # Nothing
      /\ answer.status = "CMD_COMPLETE_FULL_MATCH"
      /\ \E d \in answer.words :
           /\ line' = Append(line, d)
           /\ loose' = Step(loose, d, FALSE)
           /\ strict' = Step(strict, d, TRUE)
      /\ UNCHANGED top

\* The line is executed.
Enter ==
  LET c == Result(loose)
  IN  /\ line # <<>>
      /\ line' = <<>> /\ loose' = Start /\ strict' = Start
      /\ top' = IF c \in Writers /\ Accepts(c, line)
                THEN top \cup {[text |-> Text(c, line), cmd |-> c, full |-> TypedInFull(c, line)]}
                ELSE top

\* vtysh_config_from_file: a line that is not recognised is reported and lost.
Reload ==
  /\ line = <<>>
  /\ top' = {[e EXCEPT !.cmd = ExecuteStrict(e.text)] :
               e \in {e \in top : ExecuteStrict(e.text) \notin Failed}}
  /\ UNCHANGED <<line, loose, strict>>

Next ==
  \/ \E w \in NextWords : Type(w)
  \/ \E w \in NextWords \cup {Nothing} : Tab(w)
  \/ Enter
  \/ Reload

Spec == Init /\ [][Next]_vars

----------------------------------------------------------------------------
\* Four numbers with three dots between them, of which the first may be missing;
\* or the beginning of that.
LooksLike(f, exact) ==
  /\ Len(f) \in (IF exact THEN {4} ELSE 1 .. 4)
  /\ \A i \in DOMAIN f : f[i] = Empty => i = 1 \/ (~exact /\ i = Len(f))
  /\ \A i \in DOMAIN f : f[i] > 255 => ~exact /\ i + 1 = Len(f) /\ f[i + 1] = Empty

\* Word w is an instance of d.
MayStandFor(w, d, exact) ==
  \/ d \in {Variable, Option}
  \/ d = Address /\ w \in DOMAIN Fields /\ LooksLike(Fields[w], exact)
  \/ d = w
  \/ ~exact /\ d \in KeywordsOf(w)

\* Line l is an instance of command c.
Fits(c, l, exact) ==
  /\ Len(l) \in Cmdsize(c) .. Len(Table[c])
  /\ \A i \in DOMAIN l : \E d \in Table[c][i] : MayStandFor(l[i], d, exact)

\* Whatever is typed or read, the command that runs is one the line is an
\* instance of, long enough for its arguments and not longer than the command,
\* whose places the argument loop reads (command.c cmd_execute_command).
RunsWhatFits ==
  line # <<>> =>
    /\ Result(loose) \notin Failed => Fits(Result(loose), line, FALSE)
    /\ Result(strict) \notin Failed => Fits(Result(strict), line, TRUE)

\* A line that has a command's keywords in full, and no word for an argument
\* that could be a keyword, runs that command, typed or read: filtering word by
\* word loses nothing and no two commands compete (command.c
\* cmd_filter_by_string, cmd_filter_by_completion, is_cmd_ambiguous).
FullLineRuns ==
  \A c \in Commands :
    Fits(c, line, TRUE) /\ (\A i \in DOMAIN line : Table[c][i] \cap NotKeywords # {}
                              => KeywordsOf(line[i]) \subseteq Table[c][i])
      => Result(loose) = c /\ Result(strict) = c

\* Completing the word that is being typed does not change what the line means:
\* Tab and Enter read an abbreviation alike, also where a variable could stand
\* (command.c cmd_complete_command against cmd_filter_by_completion and
\* is_cmd_ambiguous).
TabMeansTheSame ==
  \A w \in NextWords :
    LET answer == CompleteCommand(loose, w)
    IN  answer.status = "CMD_COMPLETE_FULL_MATCH" =>
          \A d \in answer.words : Step(loose, w, FALSE) = Step(loose, d, FALSE)

\* "?" tells the truth: "<cr>" is shown only when Enter runs a command, and
\* always then unless an option may follow; a word is described if and only if
\* it may be typed here (command.c cmd_describe_command against
\* cmd_execute_command).
DescribesWhatRuns ==
  line # <<>> =>
    /\ "<cr>" \in RlDescribe(Nothing) => Result(loose) \notin Failed
    /\ Result(loose) \notin Failed => RlDescribe(Nothing) \cap {"<cr>", Option} # {}
    /\ \A w \in NextWords :
         RlDescribe(w) \cap Failed = {} <=> ~loose.ambiguous /\ Step(loose, w, FALSE).cand # {}

\* A line that was entered with its choices and addresses in full, though with
\* its other keywords abbreviated, is found again, as the same command, when
\* the file is loaded (vtysh.c: "Execute configuration command : this is strict
\* match").
FullIsReloaded == [][Reload => \A e \in top : e.full => e \in top']_vars

\* Every line that a command has put into the configuration, and "write" has
\* reported as saved (cmd_common.c: "Configuration saved SUCCESS"), is found
\* again when the file is loaded.
SavedIsReloaded == [][Reload => top' = top]_vars
=============================================================================
