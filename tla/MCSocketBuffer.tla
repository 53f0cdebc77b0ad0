--------------------------- MODULE MCSocketBuffer ---------------------------
(* Two domains after the tables that domain.h keeps in a comment, one with *)
(* raw entries and one without; three processes and buffers of three mbufs.*)
EXTENDS SocketBuffer

MCSwitch == [d \in Domains |->
  IF d = "inet"
    THEN <<[type |-> "none", protocol |-> 0, flags |-> {}, hooks |-> {"init", "slowtimo"}],
           [type |-> "dgram", protocol |-> 17, flags |-> {"ATOMIC", "ADDR"},
            hooks |-> {"init", "ctlinput"}],
           [type |-> "stream", protocol |-> 6, flags |-> {"CONNREQUIRED", "WANTRCVD"},
            hooks |-> {"init", "ctlinput"}],
           [type |-> "raw", protocol |-> 255, flags |-> {"ATOMIC", "ADDR"}, hooks |-> {}],
           [type |-> "raw", protocol |-> 1, flags |-> {"ATOMIC", "ADDR"}, hooks |-> {}],
           [type |-> "raw", protocol |-> 2, flags |-> {"ATOMIC", "ADDR"},
            hooks |-> {"init", "fasttimo"}],
           [type |-> "raw", protocol |-> 0, flags |-> {"ATOMIC", "ADDR"}, hooks |-> {"init"}]>>
    ELSE <<[type |-> "stream", protocol |-> 0, flags |-> {"CONNREQUIRED", "WANTRCVD"},
            hooks |-> {"ctlinput"}],
           [type |-> "dgram", protocol |-> 0, flags |-> {"ATOMIC", "ADDR"},
            hooks |-> {"ctlinput"}]>>]
MCLists == {<<"inet", "unix">>, <<"unix">>}
MCAddrLists == {<<"link">>, <<"link", "inet">>}
MCSizes == {[len |-> 2, ext |-> 0], [len |-> 3, ext |-> 4]}
=============================================================================
