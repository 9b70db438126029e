------------------------------- MODULE CellInfo -------------------------------
(***************************************************************************)
(* The serving cell of main/modem_ppp.c: AT+CPSI? is repeated until a line  *)
(* looks valid, and parse_cpsi_line takes network, area and cell from the   *)
(* fields of that line.  A line is the sequence of what stands between its  *)
(* commas; it may be cut between or within fields, and strtok_r passes over *)
(* an empty one.                                                            *)
(***************************************************************************)
EXTENDS Integers, Sequences

CONSTANTS
    Systems, Plmns, Tacs, Cells, Bands,     \* texts a field may have
    CpsiTries                               \* intentos of cpsi_con_reintentos

VARIABLES
    pc,
    tries,
    line,       \* cpsi: the answer of the modem, <<>> for none
    tokenId,
    tokens,     \* the fields that are left
    out,        \* *out of parse_cpsi_line
    ue          \* s_ue_info and s_ue_valid

vars == <<pc, tries, line, tokenId, tokens, out, ue>>

Info(mcc, mnc, tac, cell_id, valid) ==
    [mcc |-> mcc, mnc |-> mnc, tac |-> tac, cell_id |-> cell_id, valid |-> valid]

NoInfo == Info(0, 0, 0, 0, FALSE)

Init ==
    /\ pc = "ask" /\ tries = 0 /\ line = <<>>
    /\ tokenId = 0 /\ tokens = <<>> /\ out = NoInfo /\ ue = NoInfo

\* What stands between two commas that follow each other
NoText == ""

\* strtoul(text, NULL, 0): base 16 after 0x, base 8 after 0, else base 10; 0 for no digit.
StrtoulOf(text) ==
    CASE text \in {"0x232", "562"} -> 562
      [] text = "0x2" -> 2
      [] text = "43790378" -> 43790378
      [] text = "4379" -> 4379
      [] text = "55" -> 55
      [] text = "5" -> 5
      [] OTHER -> 0

\* atoi of what stands before the first dash and of what follows it; no dash is <<>>.
PlmnOf(text) ==
    CASE text = "334-20" -> <<334, 20>>
      [] text = "334-2"  -> <<334, 2>>
      [] text = "334-"   -> <<334, 0>>
      [] text = "33-20"  -> <<33, 20>>
      [] text \in {"000-00", "000-0", "EUTRAN-BAND5", "EUTRAN-BAND0", "EUTRAN-BAND"} -> <<0, 0>>
      [] OTHER -> <<>>

\* The layout of the comment above parse_cpsi_line
Layout(sys, plmn, tac, cell, band) == <<sys, "Online", plmn, tac, cell, "55", band>>

FullLines ==
    {Layout(s, p, t, c, b) : s \in Systems, p \in Plmns, t \in Tacs, c \in Cells, b \in Bands}

\* What a cut within a field may leave of it
Stumps(text) ==
    {NoText} \cup
    CASE text = "NO SERVICE"   -> {"NO SER"}
      [] text = "334-20"       -> {"33", "334", "334-", "334-2"}
      [] text = "000-00"       -> {"000", "000-0"}
      [] text = "0x232"        -> {"0", "0x", "0x2"}
      [] text = "43790378"     -> {"4379"}
      [] text = "00000000"     -> {"0"}
      [] text = "55"           -> {"5"}
      [] text = "EUTRAN-BAND0" -> {"EUTRAN", "EUTRAN-BAND"}
      [] text = "EUTRAN-BAND5" -> {"EUTRAN", "EUTRAN-BAND"}
      [] OTHER -> {}

\* A line that is whole, or was cut behind a field or within one
Lines ==
    {SubSeq(l, 1, n) : l \in FullLines, n \in 0..7} \cup
    UNION {{Append(SubSeq(l, 1, n - 1), t) : t \in Stumps(l[n])} : l \in FullLines, n \in 1..7}

------------------------------------------------------------------------------
\* A field with a comma on both sides
Inner(s, i) == i > 1 /\ i < Len(s)

\* cpsi_se_ve_valido
LooksValid(s) ==
    /\ s # <<>>
    /\ \A i \in 1..Len(s) : s[i] \notin {"NO SERVICE", "000-00", "EUTRAN-BAND0"}
    /\ \A i \in 1..Len(s) : Inner(s, i) => s[i] # "00000000"
    /\ \A i \in 1..Len(s) - 1 :
          i > 1 /\ Inner(s, i + 1) => ~(s[i] = "0" /\ s[i + 1] = "0")

\* cpsi_con_reintentos: a round.  The line is handed out when it is valid; the last one is when
\* none was, and then there is no cell.
Ask ==
    /\ pc = "ask"
    /\ tries' = tries + 1
    /\ \E answer \in Lines :
          \/ LooksValid(answer) /\ pc' = "parse" /\ line' = answer
          \/ ~LooksValid(answer) /\ tries' < CpsiTries /\ pc' = "ask" /\ line' = line
          \/ ~LooksValid(answer) /\ tries' >= CpsiTries /\ pc' = "done" /\ line' = answer
    /\ tokens' = line'
    /\ UNCHANGED <<tokenId, out, ue>>

Refuse == pc' = "done" /\ UNCHANGED <<tokenId, tokens, out, ue>>

\* tokenId of the area and of the cell
TokenOf_OffByOne(field) == IF field = "tac" THEN 4 ELSE 5
TokenOf(field) == IF field = "tac" THEN 3 ELSE 4

\* What a token sets; the loop ends with the cell.
Stored(text) ==
    CASE tokenId = 2 -> [out EXCEPT !.mcc = PlmnOf(text)[1], !.mnc = PlmnOf(text)[2]]
      [] tokenId = TokenOf("tac") -> [out EXCEPT !.tac = StrtoulOf(text)]
      [] tokenId = TokenOf("cell") -> [out EXCEPT !.cell_id = StrtoulOf(text)]
      [] OTHER -> out

\* strtok_r, and the body of the loop
NextToken ==
    /\ pc = "parse" /\ tokens # <<>> /\ tokenId <= TokenOf("cell")
    /\ UNCHANGED <<tries, line>>
    /\ \/ Head(tokens) = NoText /\ tokens' = Tail(tokens) /\ UNCHANGED <<pc, tokenId, out, ue>>
       \/ Head(tokens) # NoText /\ tokenId = 2 /\ PlmnOf(Head(tokens)) = <<>> /\ Refuse
       \/ /\ Head(tokens) # NoText /\ (tokenId = 2 => PlmnOf(Head(tokens)) # <<>>)
          /\ out' = Stored(Head(tokens))
          /\ tokenId' = tokenId + 1 /\ tokens' = Tail(tokens)
          /\ UNCHANGED <<pc, ue>>

\* The range of mcc and mnc, and s_ue_info
Finish ==
    /\ pc = "parse" /\ (tokens = <<>> \/ tokenId > TokenOf("cell"))
    /\ UNCHANGED <<tries, line>>
    /\ IF 100 <= out.mcc /\ out.mcc <= 999 /\ 0 <= out.mnc /\ out.mnc <= 999
       THEN /\ pc' = "done" /\ out' = [out EXCEPT !.valid = TRUE] /\ ue' = out'
            /\ UNCHANGED <<tokenId, tokens>>
       ELSE Refuse

Next == Ask \/ NextToken \/ Finish

Spec == Init /\ [][Next]_vars

------------------------------------------------------------------------------
(* Properties *)

\* modem_ppp.c:105 calls a line that passes cpsi_se_ve_valido complete and free of null values,
\* and modem_ppp.c:474 expects parse_cpsi_line to refuse an incomplete one: the cell that is
\* kept would have an area and a cell identifier.
CellComplete == ue.valid => ue.tac # 0 /\ ue.cell_id # 0
==============================================================================
