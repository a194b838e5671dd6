------------------------------ MODULE MCDialer ------------------------------
\* Finite instances of Dialer: values for its constants.
EXTENDS Dialer

AllKinds   == {"direct", "reject", "socks5", "shadowsocks", "ssr", "vmess"}
SomeNames  == {0, 128, 255, 256}
Domains    == {0, 3, 255}
OneDomain  == {3}
=============================================================================
