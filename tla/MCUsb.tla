------------------------------- MODULE MCUsb --------------------------------
(* Packets of two characters in two banks; the real endpoint 0.  *)
EXTENDS Usb

Request(name, value, length) == [request |-> name, value |-> value, length |-> length]
Descriptor(n, length) == Request("GET_DESCRIPTOR", n, length)

MCMaxRequests == [send |-> 1, receive |-> 1, control |-> 2]

MCRequests(job) ==
  CASE job = "send" ->
         {Request("SET_CONFIGURATION", 1, 0), Request("SET_CONFIGURATION", 0, 0),
          Request("GET_STATUS", 0, 2), Request("CLEAR_FEATURE", CDC_TX_ENDPOINT, 0)}
    [] job = "receive" ->
         {Request("SET_CONFIGURATION", 1, 0), Request("GET_STATUS", 0, 2), Request("CLEAR_FEATURE", CDC_RX_ENDPOINT, 0)}
    [] job = "control" ->
         {Descriptor(n, length) : n \in 1 .. 7, length \in {8, 16, 18, 64, 255, 65535}}
           \cup {Request("SET_ADDRESS", 5, 0), Request("SET_CONFIGURATION", 1, 0),
                 Request("GET_CONFIGURATION", 0, 1), Request("CDC_GET_LINE_CODING", 0, 7),
                 Request("CDC_SET_LINE_CODING", 0, 7), Request("CDC_SET_CONTROL_LINE_STATE", 3, 0),
                 Request("GET_STATUS", 0, 2), Request("SET_INTERFACE", 0, 0),
                 Request("CLEAR_FEATURE", 0, 0)}
=============================================================================
