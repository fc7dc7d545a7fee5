----------------------------- MODULE MCSoftUART -----------------------------
\* Buffers of two bytes and words of two bits: an empty call, one shorter than
\* the buffer, one that fills it and two that need several chunks, the last one
\* shorter; every parity, with one and two stop bits.
EXTENDS SoftUART

MCMessages == {<<>>, <<2>>, <<3, 0>>, <<1, 2, 3>>, <<0, 3, 3, 1, 2>>}

MCConfigs ==
    [use_parity : BOOLEAN, invert_parity : BOOLEAN,
     start_bits : {1}, stop_bits : {1, 2}, word_size : {2}]
=============================================================================
