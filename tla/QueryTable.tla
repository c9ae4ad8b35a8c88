----------------------------- MODULE QueryTable -----------------------------
(***************************************************************************)
(* The constant tables of in_smadata2plus.c: the queries the collector     *)
(* puts to an inverter, with what it expects of each answer, and the       *)
(* inverter models it knows.                                               *)
(***************************************************************************)
EXTENDS Integers, Sequences

LOCAL INSTANCE FiniteSetsExt

\* One measured value: where it and its timestamp are in the answer's content,
\* and the number its raw integer is divided by (the inverse of "factor").
Val(name, scale, pos, len, timestamp) ==
  [name |-> name, scale |-> scale, r_value_pos |-> pos, r_value_len |-> len,
   r_timestamp_pos |-> timestamp]

\* Every answer a query accepts has ctrl2 = 0x90; ctrl1 tells them apart.
PowerAcQuery ==
  [r_ctrl1 |-> 16, values |-> << Val("power_ac", 1, 20, 3, 16) >>]

YieldTotalQuery ==
  [r_ctrl1 |-> 13, values |-> << Val("yield_total", 1000, 20, 8, 16) >>]

DcQuery ==
  [r_ctrl1 |-> 51,
   values |-> << Val("power_dc_1", 1, 20, 3, 16),
                 Val("power_dc_2", 1, 48, 3, 44),
                 Val("voltage_dc_1", 100, 76, 3, 72),
                 Val("voltage_dc_2", 100, 104, 3, 100) >>]

AcQuery ==
  [r_ctrl1 |-> 121,
   values |-> << Val("power_ac_max_l1", 1, 48, 3, 44),
                 Val("power_ac_max_l2", 1, 76, 3, 72),
                 Val("power_ac_max_l3", 1, 104, 3, 100),
                 Val("power_ac_l1", 1, 216, 3, 212),
                 Val("power_ac_l2", 1, 244, 3, 240),
                 Val("power_ac_l3", 1, 272, 3, 268),
                 Val("voltage_ac_l1", 100, 300, 3, 296),
                 Val("voltage_ac_l2", 100, 328, 3, 324),
                 Val("voltage_ac_l3", 100, 356, 3, 352),
                 Val("current_ac_l1", 1000, 384, 3, 380),
                 Val("current_ac_l2", 1000, 412, 3, 408),
                 Val("current_ac_l3", 1000, 440, 3, 436) >>]

SMADATA2PLUS_QUERIES == << PowerAcQuery, YieldTotalQuery, DcQuery, AcQuery >>

\* The content a value needs: its last byte or that of its timestamp.
Reach(v) ==
  Max({v.r_value_pos + v.r_value_len, v.r_timestamp_pos + 4})

\* ctrl1 counts the packet's 32-bit words (docs/protocol.txt: "Length of
\* packet, in 32-bit words"); 24 bytes of them come before the content that
\* in_smadata2plus_level2_packet_read hands over.
ContentLength(ctrl1) == 4 * ctrl1 - 24

\* First byte of the type code of every known model, in table order.
SMADATA2MODELS == << 99, 113, 131, 226, 78, 138, 99, 128 >>

\* in_smadata2plus_get_model: the search does not stop at the first match, so
\* the last one stays; 0 when there is none.
LastModel(code) == Max({0} \cup {i \in DOMAIN SMADATA2MODELS : SMADATA2MODELS[i] = code})

=============================================================================
