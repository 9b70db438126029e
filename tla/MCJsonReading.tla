---------------------------- MODULE MCJsonReading -----------------------------
(***************************************************************************)
(* The reading half of jsoncpp, for TLC: the tokens of a text (JsonLexer),  *)
(* numbers (JsonNumber), and the two parsers over tokens, Reader and        *)
(* OurReader, each with the features that it may have.                      *)
(* A behaviour is one of one part, in one configuration; the other parts    *)
(* rest in an initial state.                                                *)
(***************************************************************************)
EXTENDS JsonReaders, JsonNumbers

VARIABLES
    part,
    (* JsonLexer *)
    l_text, l_features, begin, current, token

number == <<n_pc, text, ours, negative, pos, value, kind, decoded, exact>>
lexer == <<l_text, l_features, begin, current, token>>
mcvars == <<vars, part, number, lexer>>

------------------------------------------------------------------------------
(* The parts *)

Plain == [ours |-> FALSE, collectComments |-> FALSE, allowComments |-> TRUE,
          strictRoot |-> FALSE, allowDroppedNull |-> FALSE, allowNumericKeys |-> FALSE,
          allowTrailingCommas |-> FALSE, rejectDupKeys |-> FALSE, failIfExtra |-> FALSE,
          stackLimit |-> 2]

FeaturesOf(p) ==
    CASE p = "lenient" ->       \* Reader with the two lenient features, and a strict root
            [Plain EXCEPT !.allowComments = FALSE, !.strictRoot = TRUE,
                          !.allowDroppedNull = TRUE, !.allowNumericKeys = TRUE]
      [] p = "collecting" ->    \* Reader that collects comments
            [Plain EXCEPT !.collectComments = TRUE, !.stackLimit = 3]
      [] p = "alike" ->         \* OurReader with nothing that Reader does not have
            [Plain EXCEPT !.ours = TRUE, !.strictRoot = TRUE,
                          !.allowDroppedNull = TRUE, !.allowNumericKeys = TRUE]
      [] p = "strict" ->        \* OurReader with OurFeatures::strictMode
            [Plain EXCEPT !.ours = TRUE, !.allowComments = FALSE, !.strictRoot = TRUE,
                          !.rejectDupKeys = TRUE, !.failIfExtra = TRUE]
      [] p = "trailing" ->      \* OurReader that collects comments and takes trailing commas
            [Plain EXCEPT !.ours = TRUE, !.collectComments = TRUE,
                          !.allowTrailingCommas = TRUE, !.rejectDupKeys = TRUE]
      [] OTHER -> Plain         \* Reader with Features::all, as the Firebase client has it

\* One name is enough for a member that is repeated, and the tokens are those of such a
\* document.
AlphabetOf(p) ==
    IF p # "collecting" THEN AllTokens
    ELSE {t \in AllTokens : /\ t # Item("string", "")
                            /\ t.type \notin {"badString", "badNumber", "error", "number", "literal"}}

\* Bounds of the parts, within MaxTokens and MaxDocs
TokensOf(p) == CASE p = "collecting" -> 10 [] p \in {"lenient", "trailing"} -> 7 [] OTHER -> 8
DocsOf(p) == IF p \in {"all", "alike", "strict"} THEN 2 ELSE 1

\* Quotes, comments and lines
Marks == INSTANCE JsonLexer WITH
    text <- l_text, features <- l_features,
    MaxFragments <- 4, Features <- {"singleQuotes", "skipBom"},
    Fragments <- {" ", "CR", "LF", "quote", "'", "backslash", "/", "*", "BOM"}

\* Special floats and words
Words == INSTANCE JsonLexer WITH
    text <- l_text, features <- l_features, MaxFragments <- 3, Features <- {"specialFloats"},
    Fragments <- {" ", "1", "-", "I", "nfinity", "N", "aN", "t", "rue", "["}

\* Numbers
Figures == INSTANCE JsonLexer WITH
    text <- l_text, features <- l_features, MaxFragments <- 5, Features <- {},
    Fragments <- {" ", "1", ".", "e", "-"}

Parsers == {"all", "lenient", "collecting", "alike", "strict", "trailing"}
Texts == {"marks", "words", "figures"}

MCInit ==
    /\ part \in Parsers \cup Texts \cup {"number"}
    /\ features = FeaturesOf(part) /\ alphabet = AlphabetOf(part) /\ Init
    /\ IF part = "number" THEN Number!Init
       ELSE /\ n_pc = "integral" /\ text = <<Number!Zero>> /\ ours = FALSE /\ negative = FALSE
            /\ pos = 0 /\ value = 0 /\ kind = "none" /\ decoded = 0 /\ exact = 0
    /\ CASE part = "marks" -> Marks!Init
         [] part = "words" -> Words!Init
         [] part = "figures" -> Figures!Init
         [] OTHER -> /\ l_text = <<>> /\ l_features = {} /\ begin = 0 /\ current = 0
                     /\ token = Marks!Token("none", 0, 0)

ParseDocument ==
    /\ part \in Parsers
    /\ IF Ours THEN OurNext ELSE Next
    /\ left' <= TokensOf(part) /\ docs' <= DocsOf(part)
    /\ UNCHANGED <<number, part, lexer>>

DecodeNumber == part = "number" /\ Number!Next /\ UNCHANGED <<vars, part, lexer>>

ReadToken ==
    /\ \/ part = "marks" /\ Marks!Next
       \/ part = "words" /\ Words!Next
       \/ part = "figures" /\ Figures!Next
    /\ UNCHANGED <<vars, part, number>>

MCNext == ParseDocument \/ DecodeNumber \/ ReadToken

\* parse runs to its end, although another document need not follow.
Runs == part = "all" /\ Step /\ UNCHANGED <<settings, number, part, lexer>>
MCSpec == MCInit /\ [][MCNext]_mcvars /\ WF_mcvars(Runs)

------------------------------------------------------------------------------
(* Properties *)

\* Every Reader::parse ends: recovery stops at the end of the document, in every container.
ParseEnds == part = "all" => DocumentEnds

\* Tokens end where they should: readString at the first quote that an even number of
\* backslashes precedes, readComment at the first "*/" after its opening or with a slash that
\* ends the text ("/*/" is a comment there), readNumber after the longest text that is a number.
\* getLocationLineAndColumn counts lines, CR LF being one, and columns from 1.
TokensEnd ==
    /\ part = "marks" => Marks!StringEnds /\ Marks!CommentEnds /\ Marks!LineAndColumn
    /\ part = "figures" => Figures!NumberLongest

\* A call of readToken leaves nothing but white space between two tokens and stays in the text.
Consecutive ==
    [][(part \in Texts /\ token.type # "none") => Marks!FollowsToken]_mcvars
==============================================================================
