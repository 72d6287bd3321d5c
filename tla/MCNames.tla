------------------------------ MODULE MCNames ------------------------------
(***************************************************************************)
(* An instance of Names with names of 2.1 characters: every name of up to  *)
(* two characters, every pattern of up to three without a dot, and chosen  *)
(* longer ones; paths that climb above the root and outgrow the buffer;    *)
(* times around the ends of years, days and the 32-bit range.              *)
(***************************************************************************)
EXTENDS Names

MCBaseLen  == 2
MCExtLen   == 1
MCMaxParts == 3
MCUpperOf  == [c \in {"a"} |-> "A"]
MCIllegal  == {" ", "*", "?", "<"}
MCUnlisted == {" ", "*", "?"}
MCOffsets  == {0, -18000, 3600}

MCMaxCalls == 2

Texts(chars, most) == UNION {[1..n -> chars] : n \in 1..most}

A == <<"A">>
B == <<"B">>

MCPaths ==
  {[rooted |-> r, parts |-> t] : r \in BOOLEAN,
     t \in {<<A>>, <<A, B>>, <<DotDot>>, <<B, DotDot, Dot>>, <<A, DotDot, DotDot>>}}

Spec1(rooted, parts, attribs) ==
  [rooted |-> rooted, parts |-> parts, attribs |-> attribs]

MCSpecs ==
  {Spec1(TRUE, <<t>>, {}) :
     t \in Texts({"A", "*", "?"}, 3)
           \cup {<<"*", ".", "*">>, <<"A", ".", "*">>, <<"?", ".", "A">>, <<"*", ".", "?">>, <<"A", "*", ".">>,
                 <<"*", "A", "*", "B">>, <<"A", "*", ".", "*">>, <<"A", ".", "*", " ">>,
                 <<"*", "B", ".", "?">>, <<"A", "?", ".", "B", "*">>, <<"a", "*">>}}
  \cup {Spec1(FALSE, t, {"folder"}) :
          t \in {<<A, <<"*">>>>, <<DotDot, <<"*">>>>, <<A, DotDot, DotDot>>, <<DotDot>>}}
  \cup {Spec1(TRUE, <<<<"*">>>>, a) :
          a \in {{"folder", "hidden"}, {"hidden"}, {"label"}, {"label", "folder"}}}

Noon == [day |-> 11016, sec |-> 45000]

MCTimes == {[day |-> d, sec |-> x] :
              d \in {3651, 11322, 43829}, x \in {0, 86399}}
           \cup {[day |-> 0, sec |-> 0], [day |-> 49710, sec |-> 23295],
                 [day |-> 11016, sec |-> 3599]}

MCEntries ==
  {[name |-> n, flags |-> {}, mtime |-> Noon] :
     n \in Texts({"A", "B", "."}, 2)
           \cup {<<"A", "B", "A">>, <<"A", ".", "A">>, <<"B", ".", "A">>, <<"A", "B", ".">>, <<"A", ".", ".">>,
                 <<"A", "B", ".", "A">>, <<"B", "B", ".", "B">>, <<"A", "B", ".", "A", "A">>,
                 <<"a">>, <<"A", " ">>, <<"A", "B", "A", ".", "B">>}}
  \cup {[name |-> A, flags |-> f, mtime |-> Noon] :
          f \in {{"folder"}, {"hidden"}, {"folder", "hidden"}, {"special"}}}
  \cup {[name |-> A, flags |-> {}, mtime |-> t] : t \in MCTimes}

MCCardEntries ==
  {[name |-> n, attribs |-> a] :
     n \in {A, <<".", "A">>, <<" ">>, <<" ", ".", "a">>, <<"A", "B", "A", ".", "B", "B">>,
            <<"a", ".", "A", ".", "B", "B">>, <<"A", "<", ".", "<">>, <<"A", "B", "A", "B", "A", ".", "B">>},
     a \in {{}, {"rdo", "arc"}, {"dir", "hid", "sys"}}}
============================================================================
