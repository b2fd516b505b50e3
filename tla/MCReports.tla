------------------------------ MODULE MCReports ------------------------------
(* Values for the constants of Reports.                                    *)
EXTENDS MCItSavar, Reports

LogOnly == {[log |-> TRUE, log_packets |-> TRUE, warnserver |-> TRUE,
             warnbannedpacket |-> TRUE]}

Addresses == Permutations(Addr)

\* Senders of banned packets are banned, or they are not.
BanOrNot == {Vars(2, 1, 2, 3, 1, 1, 1), Vars(2, 1, 2, 3, 1, 1, 0)}
=============================================================================
