----------------------------- MODULE MCSlirpTcp -----------------------------
EXTENDS SlirpTcp

\* bound: the guest sends its last byte, and its FIN, only beside a host that has
\* written less than all of its bytes.
FewBytes == host.sent < HostBytes \/ guest.nxt <= GuestBytes
=============================================================================
