---------------------------- MODULE MCStringBuffer ----------------------------
(* A small instance of StringBuffer for TLC: strings that begin empty or with  *)
(* one letter and are extended across two calls of grow().                     *)
EXTENDS StringBuffer

Letters == {1, 2}
Starts == {<<>>, <<1>>}

\* Members that happen to be in order, the address of a block that was freed or is
\* in use among them, and members that are not.
Leftovers ==
  {[m_string |-> Null, m_length |-> 0, m_capacity |-> 0],
   [m_string |-> Wild, m_length |-> 1, m_capacity |-> 2],
   [m_string |-> 1, m_length |-> 1, m_capacity |-> 2],
   [m_string |-> Wild, m_length |-> 2, m_capacity |-> 1]}
===============================================================================
