------------------------------- MODULE TupleKey -------------------------------
(***************************************************************************)
(* The 64-bit keys of the sockhash: as the loader packs them from          *)
(* getsockname and getpeername (sockmap/linux.rs, sockmap/tuple.rs) and as *)
(* the BPF program packs them from the packet's socket (relay.bpf.c), on a *)
(* little-endian machine.  Shifts are products, and | is a sum, since the  *)
(* bits do not overlap.                                                    *)
(*                                                                         *)
(* A socket is the bytes of its two IPv4 addresses, in network order.      *)
(***************************************************************************)
EXTENDS Integers

Below(n) == {k \in Nat : k < n}

(* n bytes, the one sent first at the front.                               *)
Word(n) == [1..n -> Below(256)]

Socket == [local : [port : Word(2), ip : Word(4)],
           peer  : [port : Word(2), ip : Word(4)]]

FromBe16(b) == 256 * b[1] + b[2]
FromLe16(b) == b[1] + 256 * b[2]
FromLe32(b) == b[1] + 256 * b[2] + 65536 * b[3] + 16777216 * b[4]

tuple_key(local_port, remote_port, remote_ip) ==
    ((local_port % 65536) * 65536 + (FromLe16(remote_port) % 65536)) * 4294967296
      + FromLe32(remote_ip)

NoKey == -1

(* None for a socket that is not bound: insert_pair then fails.            *)
build_tuple_key(s) ==
    IF FromBe16(s.local.port) = 0
      THEN NoKey
      ELSE tuple_key(FromBe16(s.local.port), s.peer.port, s.peer.ip)

(* The socket as the program sees it: the local port in host order, the    *)
(* remote port in the upper half of its word.                              *)
SkBuff(s) == [local_port  |-> FromBe16(s.local.port),
              remote_port |-> 65536 * FromLe16(s.peer.port),
              remote_ip4  |-> FromLe32(s.peer.ip)]

KernelKey(skb) ==
    ((skb.local_port % 65536) * 65536 + ((skb.remote_port \div 65536) % 65536)) * 4294967296
      + skb.remote_ip4

=============================================================================
