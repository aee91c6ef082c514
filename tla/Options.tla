-------------------------------- MODULE Options --------------------------------
(***************************************************************************)
(* How COptionsPriv::parse() divides the threads among the three pools     *)
(* (options.cpp:367-378) over the defaults of COptions::COptions().  The   *)
(* option that sets the number of uploads replaces its share by a positive *)
(* number or ends the program (380-387).                                   *)
(***************************************************************************)
EXTENDS Integers

\* hardware: what hardware_concurrency() returns, 0 if it cannot tell.
Divided(hardware) == hardware > 3

UploadShare(hardware) ==
    IF ~ Divided(hardware) THEN 1
    ELSE IF hardware \div 2 < 5 THEN hardware \div 2 ELSE 5

RemoteMd5Share(hardware) ==
    IF Divided(hardware) THEN (hardware - UploadShare(hardware)) \div 2 ELSE 1

LocalMd5Share(hardware) ==
    IF Divided(hardware)
    THEN hardware - UploadShare(hardware) - RemoteMd5Share(hardware) ELSE 1
================================================================================
