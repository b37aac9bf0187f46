---------------------------- MODULE MCProtoCodec ----------------------------
(***************************************************************************)
(* The codecs with words of 30 and half words of 15 bits: a varint has at  *)
(* most five groups, of the last one two bits are used.                    *)
(***************************************************************************)
EXTENDS ProtoCodec, GlobalFeeMessages, PoEMessages, TwasmMessages

MCReads == GlobalFeeReads @@ PoEReads @@ TwasmReads
MCWrites == GlobalFeeWrites @@ PoEWrites @@ TwasmWrites
MCSizes == GlobalFeeSizes @@ PoESizes @@ TwasmSizes
MCMessages == DOMAIN MCReads

\* Field 100 of every wire type, tags 160..165 6: a varint, eight bytes, a
\* length, a group in a group, four bytes.
MCUnknownFields ==
    {<<160, 6, 172, 2>>,
     <<161, 6, 1, 2, 3, 4, 5, 6, 7, 8>>,
     <<162, 6, 2, 10, 200>>,
     <<163, 6, 160, 6, 1, 163, 6, 164, 6, 164, 6>>,
     <<165, 6, 10, 2, 3, 4>>}

\* Number 0, the end of no group, an unused wire type, a group without end, a
\* negative length, a varint that is too long, a value that is too short.
MCDamagedFields ==
    {<<0, 1>>,
     <<164, 6>>,
     <<166, 6, 1>>,
     <<163, 6, 160, 6, 1>>,
     <<162, 6, 255, 255, 255, 255, 3>>,
     <<160, 6, 128, 128, 128, 128, 128, 0>>,
     <<161, 6, 1, 2, 3>>}
=============================================================================
