---------------------------- MODULE MCMemoryMap ----------------------------
(***************************************************************************)
(* MemoryMap with the footprints of all data sets of the applications that *)
(* declare one (software/*/dycton_*_app.h).                                *)
(***************************************************************************)
EXTENDS MemoryMap

MCFootprints ==
  {10128, 13416, 10848, 10004, 10542, 10122, 5128, 8942}                    \* dijkstra
    \cup {1262320, 368200, 368224, 1419224, 1419208, 370040}                \* h263
    \cup {7476, 7580, 7428, 7644, 7596, 7508, 7524}                         \* ecdsa
    \cup {110784, 500000, 233760, 110928, 108816, 115440}                   \* jpeg
    \cup {38964, 45988, 46252, 11844, 41716, 52180, 120332, 45644}          \* json_parser
    \cup {1715760, 3305536, 2791424, 2943040, 2807480, 1638760, 1526528, 1568616}  \* jpg2000
=============================================================================
