-------------------------- MODULE MCTCPRawMsgSender -------------------------
(***************************************************************************)
(* Small instances of TCPRawMsgSender: a one-byte length, a two-byte one   *)
(* in both byte orders, a four-byte one, messages without a header, and    *)
(* arguments that the constructor refuses.                                 *)
(***************************************************************************)
EXTENDS TCPRawMsgSender

Header(size, offset, width, include, flip) ==
    [msg_type |-> "with_header", header_size |-> size, length_offset |-> offset,
     length_size |-> width, length_include_header |-> include, endian_flip |-> flip]

NoHeader == [Header(0, 0, 0, FALSE, FALSE) EXCEPT !.msg_type = "no_header"]

BodyLengths == {Header(2, 1, 1, FALSE, FALSE), Header(3, 1, 2, FALSE, FALSE),
                Header(4, 1, 2, FALSE, TRUE), Header(5, 1, 4, FALSE, TRUE),
                Header(2, 1, 2, FALSE, FALSE), NoHeader}

FullLengths == {Header(2, 1, 1, TRUE, FALSE)}

TwoBodies == {<<>>, <<1, 2>>}
=============================================================================
