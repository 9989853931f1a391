--------------------------- MODULE MCMessageCodec ---------------------------
(* Ids, options and datagrams at the borders, for model checking MessageCodec. *)
EXTENDS MessageCodec

Repeat(byte, times) == [k \in 1 .. times |-> byte]

MCIds == {0, 12648385, 16777215, 16777216}
MCHeaderValues ==
    {<<"version", 0>>, <<"version", 2>>, <<"code", 199>>, <<"qos", 3>>, <<"id", 16777216>>}
MCPayloads == {<<>>, <<200>>}
MCTopics == {<<>>, <<65>>}

\* A content type as the integer it is and as a string of four bytes; a
\* correlation id as raw bytes and as an integer, which is read back as a string;
\* values of the largest length and of one byte more.
MCOptions ==
    { [type |-> 4, value |-> packInt(1), kind |-> "int"],
      [type |-> 4, value |-> packInt(1), kind |-> "string"],
      [type |-> 2, value |-> <<0, 255>>, kind |-> "bytes"],
      [type |-> 2, value |-> packInt(7), kind |-> "int"],
      [type |-> 1, value |-> Repeat(9, 255), kind |-> "string"],
      [type |-> 1, value |-> Repeat(9, 256), kind |-> "bytes"] }

\* Composed elsewhere: too short, cut in an option's head and value, two topics,
\* the largest version, level and unused bits, and as many options as the header
\* can count.
MCDatagrams ==
    { <<64, 0, 0>>,
      <<80, 0, 0, 0, 64, 4, 0, 0, 3>>,
      <<80, 0, 0, 0, 64, 4, 0, 0, 3, 2, 65>>,
      <<80, 0, 0, 0, 64, 8, 0, 0, 3, 1, 65, 3, 1, 66, 7>>,
      <<223, 255, 255, 255, 252, 7, 255, 255, 4, 1, 2, 8>>,
      <<80, 0, 0, 0, 67, 252, 0, 0>> \o [k \in 1 .. 510 |-> IF k % 2 = 1 THEN 3 ELSE 0] }
=============================================================================
