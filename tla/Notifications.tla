--------------------------- MODULE Notifications ---------------------------
(* NotificationsService: a list of notices is written at once, after the business
   operation has committed, and never fails it.
   src/modules/notifications/notifications.service.ts *)
EXTENDS FiniteSets, FiniteSetsExt, Naturals

CONSTANTS MaxFanout   \* nothing is told to more people than this in one go

ASSUME NotificationsAssumption == MaxFanout \in Nat \ {0}

\* notify: whom of `people`, in no order, the first `room` rows of the list reach
Fitting(people, room) ==
  IF Cardinality(people) <= room THEN {people} ELSE kSubset(room, people)
=============================================================================
