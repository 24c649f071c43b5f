------------------------------ MODULE MCCodec ------------------------------
(* All texts of a few lines over the headers and one or two lines of each     *)
(* kind of key, and tunnels with up to two peers.                             *)
EXTENDS ConfCodec

CONSTANTS k1, k2, plus25, MaxLines

Parts1 == {k1, k2, plus25, AllNets, Blank} \union Numerals
MCNumeral == [p \in Parts1 |-> IF p \in {plus25} \union Numerals THEN Often ELSE None]

Lines ==
    {Line("[Interface]", <<Blank>>), Line("[Peer]", <<Blank>>),
     Line("PrivateKey", <<k1>>), Line("Address", <<k1, k2>>), Line("MTU", <<plus25>>),
     Line("MTU", <<k1>>), Line("PublicKey", <<k1>>), Line("AllowedIPs", <<k1, k2>>),
     Line("PresharedKey", <<k2>>), Line("PersistentKeepalive", <<Often>>),
     Line("# a comment", <<k1>>)}

MCTexts == BoundedSeq(Lines, MaxLines)

PeersOf ==
    [public_key : {<<k1>>}, preshared_key : {None, <<k2>>}, endpoint : {<<k1>>},
     allowed_ips : {<<>>, <<<<k1, k2>>>>, <<<<k1>>, <<k2>>>>, <<<<Blank>>>>},
     persistent_keepalive : {None, Often}]

MCConfigs ==
    [private_key : {<<k1>>}, address : {<<>>, <<<<k1, k2>>>>, <<<<k1>>, <<k2>>>>},
     dns : {<<>>, <<<<k2>>>>}, mtu : {None, Often}, peers : BoundedSeq(PeersOf, 2)]

=============================================================================
