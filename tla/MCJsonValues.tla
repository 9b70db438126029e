----------------------------- MODULE MCJsonValues -----------------------------
(***************************************************************************)
(* The other half of jsoncpp, for TLC: the containers, the memory and the   *)
(* order of Json::Value (JsonArrays, JsonValues), its conversions           *)
(* (JsonConvert), Json::Path (JsonPath), the writers (JsonWriter) and the   *)
(* strings of a document (JsonString).                                      *)
(* A behaviour is one of one part, in one configuration; the other parts    *)
(* rest in an initial state.                                                *)
(***************************************************************************)
EXTENDS JsonArrays, JsonValues

VARIABLES
    part,
    (* JsonConvert *)
    c_value, target, outcome,
    (* JsonPath *)
    p_pc, meant, path, p_current, in, args, nodes, node, i,
    (* JsonWriter *)
    w_value, w, todo,
    (* JsonString *)
    s_pc, emitUTF8, s_value, c, text, current, end, decoded, ok, origin

container == <<type, map, dense, live, call>>
conversion == <<c_value, target, outcome>>
comparison == <<c_x, c_y, c_z, c_result>>
memory == <<m_value, heap>>
pathvars == <<p_pc, meant, path, p_current, in, args, nodes, node, i>>
writer == <<w_value, w, todo>>
string == <<s_pc, emitUTF8, s_value, c, text, current, end, decoded, ok, origin>>
mcvars == <<part, container, conversion, comparison, memory, pathvars, writer, string>>

------------------------------------------------------------------------------
(* The parts *)

Conversion == INSTANCE JsonConvert WITH
    value <- c_value, IntBits <- 3, Int64Bits <- 7, MantissaBits <- 4, MaxHalves <- 512

Path == INSTANCE JsonPath WITH
    pc <- p_pc, current <- p_current, Keys <- {"a", "b"}, Indices <- {"0", "1"},
    MaxArgs <- 2, MaxChars <- 3

Styled == INSTANCE JsonWriter WITH
    value <- w_value, Writer <- "StyledWriter", Indents <- TRUE, AllComments <- TRUE,
    Comments <- {"line", "lines", "block"}, RightMargin <- 9, MaxKids <- 2

StyledStream == INSTANCE JsonWriter WITH
    value <- w_value, Writer <- "StyledStreamWriter", Indents <- TRUE, AllComments <- TRUE,
    Comments <- {"line", "lineb", "lines", "block"}, RightMargin <- 9, MaxKids <- 2

BuiltStyled == INSTANCE JsonWriter WITH
    value <- w_value, Writer <- "BuiltStyledStreamWriter", Indents <- TRUE, AllComments <- TRUE,
    Comments <- {"line", "lineb", "lines", "block"}, RightMargin <- 9, MaxKids <- 2

\* Without indentation and without comments
BuiltCompact == INSTANCE JsonWriter WITH
    value <- w_value, Writer <- "BuiltStyledStreamWriter", Indents <- FALSE, AllComments <- FALSE,
    Comments <- {"line", "block"}, RightMargin <- 9, MaxKids <- 2

String == INSTANCE JsonString WITH
    pc <- s_pc, value <- s_value,
    CodePoints <- {8, 31, 34, 65, 92, 127, 128, 2047, 2048, 55295, 57344, 65535, 65536, 1114111},
    MaxPoints <- 2,
    Bytes <- {34, 65, 128, 160, 194, 224, 237, 240, 247, 248}, MaxBytes <- 3,
    Fragments <- {"quote", "backslash", "u", "D8", "dc"}, MaxFragments <- 6

Writers == {"styled", "stream", "built", "compact"}

MCInit ==
    /\ part \in Writers \cup {"container", "conversion", "comparison", "memory", "path", "string"}
    /\ Container!Init /\ (part # "container" => dense)
    /\ Memory!Init
    /\ IF part = "conversion" THEN Conversion!Init
       ELSE c_value = 0 /\ target = "none" /\ outcome = 0
    /\ IF part = "comparison" THEN Comparison!Init
       ELSE c_x = 0 /\ c_y = 0 /\ c_z = 0 /\ c_result = Comparison!Unset
    /\ IF part = "path" THEN Path!Init
       ELSE /\ p_pc = "parse" /\ p_current = 1 /\ meant = <<>> /\ path = <<>> /\ in = <<>>
            /\ args = <<>> /\ nodes = <<>> /\ node = <<>> /\ i = 1
    /\ CASE part = "styled" -> Styled!Init
         [] part = "stream" -> StyledStream!Init
         [] part = "built" -> BuiltStyled!Init
         [] part = "compact" -> BuiltCompact!Init
         [] OTHER -> w_value = 0 /\ w = 0 /\ todo = <<>>
    /\ IF part = "string" THEN String!Init
       ELSE /\ s_pc = "write" /\ emitUTF8 = FALSE /\ s_value = <<>> /\ c = 0 /\ text = <<>>
            /\ current = 0 /\ end = 0 /\ decoded = <<>> /\ ok = TRUE /\ origin = "valid"

UseContainer ==
    /\ part = "container" /\ Container!Next
    /\ UNCHANGED <<part, conversion, comparison, memory, pathvars, writer, string>>

Convert ==
    /\ part = "conversion" /\ Conversion!Next
    /\ UNCHANGED <<part, container, comparison, memory, pathvars, writer, string>>

Compare ==
    /\ part = "comparison" /\ Comparison!Next
    /\ UNCHANGED <<part, container, conversion, memory, pathvars, writer, string>>

UseMemory ==
    /\ part = "memory" /\ Memory!Next
    /\ UNCHANGED <<part, container, conversion, comparison, pathvars, writer, string>>

FollowPath ==
    /\ part = "path" /\ Path!Next
    /\ UNCHANGED <<part, container, conversion, comparison, memory, writer, string>>

Write ==
    /\ \/ part = "styled" /\ Styled!Next
       \/ part = "stream" /\ StyledStream!Next
       \/ part = "built" /\ BuiltStyled!Next
       \/ part = "compact" /\ BuiltCompact!Next
    /\ UNCHANGED <<part, container, conversion, comparison, memory, pathvars, string>>

WriteOrReadString ==
    /\ part = "string" /\ String!Next
    /\ UNCHANGED <<part, container, conversion, comparison, memory, pathvars, writer>>

MCNext == \/ UseContainer \/ Convert \/ Compare \/ UseMemory \/ FollowPath \/ Write
          \/ WriteOrReadString

MCSpec == MCInit /\ [][MCNext]_mcvars

------------------------------------------------------------------------------
(* Properties *)

\* What isInt, isUInt, isInt64 or isUInt64 affirms, asX returns, without an abort.
\* isConvertibleTo answers what asX does; a conversion from double that passes its assertion
\* stays in the range of the type, the rounded limit of asInt64 and asUInt64 aside; isIntegral
\* holds exactly of an Int64 or a UInt64.
Conversions ==
    part = "conversion" => /\ Conversion!IsThenAs /\ Conversion!ConvertibleAgrees
                           /\ Conversion!CastInRange /\ Conversion!IntegralIsOne

\* makePath never looks beyond the zero character that ends a path and finds the elements that
\* were written; Path::resolve finds the node that Path::make created, whatever was there.
PathFound == part = "path" => Path!ParseInBounds /\ Path!PathElements /\ Path!MakeResolves

\* What a styled writer writes reads back as the value, no comment hiding a token, and the
\* writers that write comments write every comment of a value, once.  Two cases are left out, in
\* which a token does end up behind a line comment: a comment that ends in a blank, after which
\* writeIndent of StyledWriter sees an indentation and writes no newline, and comments in
\* BuiltStyledStreamWriter without indentation, whose writeIndent writes no newline at all.
ReadsBack ==
    /\ part \in Writers => Styled!ReadsBack
    /\ part \in Writers \ {"compact"} => Styled!CommentsKept

\* A string of valid UTF-8 that valueToQuotedStringN writes is read as it was, with and without
\* emitUTF8; any bytes are written as a string that is accepted, and what is read from it is
\* stable; readString and decodeString agree on where a string ends.
StringsKept == part = "string" => String!RoundTrip /\ String!Normalises /\ String!DecodesWhole
==============================================================================
