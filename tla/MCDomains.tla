------------------------------ MODULE MCDomains ------------------------------
(***************************************************************************)
(* Small instances of ZbcDomains: up to five domains, the last of a type   *)
(* that the library does not know, and three realms, of which two can be   *)
(* active in several domains.                                              *)
(***************************************************************************)
EXTENDS ZbcDomains

MCDomainType   == <<"conv", "swr", "sobr", "swp", "unknown">>
MCRealmDomains == <<{1, 2}, {1, 2, 3, 4}, {1}>>

MCDevices ==
  {d \in [drv : {"scsi", "ata"}, zdr : SUBSET {"domains", "realms"},
          realms : BOOLEAN, format : {"standard", "old"},
          domains : 1..NrDomains, slots : RealmSlots] :
     d.drv = "scsi" => d.realms /\ d.format = "standard"}
=============================================================================
