------------------------------ MODULE Settings ------------------------------
(***************************************************************************)
(* The settings that the protocols depend on, with the values they have    *)
(* when nobody sets them (config.rs and notification_delivery.rs; the      *)
(* shipped settings.yaml agrees), and the check at start-up.  Environment  *)
(* variables override every one of them with any 64-bit number, so the     *)
(* relations the other modules assume of their constants must follow from  *)
(* the check or be known not to (Coherent).  Also the quiet hours, which   *)
(* the check keeps around the night: whether a device is in them, and when *)
(* a campaign that met them is offered again.                              *)
(***************************************************************************)
EXTENDS Integers

CONSTANT MaxU64  \* u64::MAX

ASSUME U64Assumption == MaxU64 \in Nat /\ MaxU64 > 31536000

U64 == 0 .. MaxU64
SaturatingAdd(a, b) == IF a > MaxU64 - b THEN MaxU64 ELSE a + b

\* What validate() calls must_be_positive.
Positive == {
  "event_silence_timeout_secs", "profile_cache_ttl_secs", "processed_event_ttl_secs",
  "video_coordinate_dedup_ttl_secs", "new_post_rate_limit_secs", "notify_list_max_creators",
  "notify_list_history_limit", "new_post_fanout_page_size", "new_post_delivery_concurrency",
  "new_post_fanout_lease_secs", "new_post_fanout_retry_secs", "new_post_fanout_poll_millis",
  "coalesce_window_secs", "coalesce_lease_secs", "coalesce_retry_secs", "coalesce_poll_millis",
  "coalesce_group_ttl_secs", "coalesce_flush_timeout_secs", "coalesce_logical_expiry_grace_secs",
  "recipient_throttle_capacity", "recipient_throttle_refill_secs", "recipient_daily_window_secs",
  "recipient_daily_cap" }

Delivery == [ quiet_start_hour |-> 21, quiet_end_hour |-> 7, hourly_cap |-> 5, daily_cap |-> 20,
              max_event_age_secs |-> 3600, min_interval_secs |-> 21600, absence_cap |-> 2 ]

Service == [
  processed_event_ttl_secs |-> 604800, video_coordinate_dedup_ttl_secs |-> 31536000,
  new_post_rate_limit_secs |-> 3600, notify_list_max_creators |-> 1000,
  notify_list_history_limit |-> 5000, new_post_fanout_page_size |-> 1000,
  new_post_delivery_concurrency |-> 50, new_post_fanout_lease_secs |-> 1200,
  new_post_fanout_retry_secs |-> 5, new_post_fanout_poll_millis |-> 250,
  coalesce_window_secs |-> 7200, coalesce_immediate_limit |-> 0, coalesce_lease_secs |-> 300,
  coalesce_retry_secs |-> 5, coalesce_poll_millis |-> 250, coalesce_group_ttl_secs |-> 86400,
  coalesce_flush_timeout_secs |-> 120, coalesce_logical_expiry_grace_secs |-> 3600,
  recipient_throttle_capacity |-> 20, recipient_throttle_refill_secs |-> 60,
  recipient_daily_window_secs |-> 86400, recipient_daily_cap |-> 20 ]

Nostr == [ event_silence_timeout_secs |-> 300, profile_cache_ttl_secs |-> 300 ]

Name == DOMAIN Delivery \cup DOMAIN Service \cup DOMAIN Nostr
Setting == [Name -> U64]

Shipped == [n \in Name |-> IF n \in DOMAIN Delivery THEN Delivery[n]
                           ELSE IF n \in DOMAIN Service THEN Service[n]
                           ELSE Nostr[n]]

-----------------------------------------------------------------------------
(* validate() *)

PolicyIsKept(s) ==
  /\ s["quiet_start_hour"] \in 0..23 /\ s["quiet_start_hour"] <= 21
  /\ s["quiet_end_hour"] \in 0..23 /\ s["quiet_end_hour"] >= 7
  /\ s["quiet_start_hour"] > s["quiet_end_hour"]
  /\ \A n \in {"hourly_cap", "daily_cap", "max_event_age_secs"} : s[n] > 0
  /\ s["min_interval_secs"] >= 21600
  /\ s["absence_cap"] \in 1..2

GroupOutlivesWork(s) ==
  s["coalesce_group_ttl_secs"]
    > SaturatingAdd(s["coalesce_window_secs"], s["coalesce_lease_secs"])

LeaseOutlivesFlush(s) ==
  s["coalesce_lease_secs"]
    > SaturatingAdd(s["coalesce_flush_timeout_secs"], s["coalesce_flush_timeout_secs"])

Validates(s) ==
  /\ PolicyIsKept(s)
  /\ \A n \in Positive : s[n] > 0
  /\ GroupOutlivesWork(s)
  /\ LeaseOutlivesFlush(s)

-----------------------------------------------------------------------------
(* What the other modules assume of their constants. *)

\* CoalesceAssumption, for the outbox whose groups end with their window.
OutboxRelations(s) ==
  /\ s["coalesce_group_ttl_secs"] > s["coalesce_window_secs"] + s["coalesce_lease_secs"]
  /\ s["coalesce_lease_secs"] > 2 * s["coalesce_flush_timeout_secs"]
  /\ s["max_event_age_secs"]
       <= s["coalesce_window_secs"] + s["coalesce_logical_expiry_grace_secs"]

\* BudgetAssumption and RetentionAssumption: reservations are kept for a day.
BudgetRelations(s) ==
  /\ s["hourly_cap"] > 0 /\ s["daily_cap"] > 0 /\ s["absence_cap"] > 0
  /\ s["min_interval_secs"] > 0 /\ s["min_interval_secs"] <= 86400

\* RecipientAssumption: claims outlast every attempt at the event, the longest
\* of which one page of the fan-out's lease bounds.
ClaimRelations(s) ==
  s["processed_event_ttl_secs"] > s["max_event_age_secs"] + s["new_post_fanout_lease_secs"]

\* What validate() leaves to the operator.
Coherent(s) ==
  /\ s["max_event_age_secs"]
       <= s["coalesce_window_secs"] + s["coalesce_logical_expiry_grace_secs"]
  /\ s["min_interval_secs"] <= 86400
  /\ ClaimRelations(s)

-----------------------------------------------------------------------------
(* Quiet hours.  An instant matters only by the second of the day that it  *)
(* is for the device, which its offset from UTC determines.                *)

SecondOfDay == {n \in Nat : n < 86400}

\* in_quiet_hours
InQuietHours(second, s) ==
  LET hour == second \div 3600
      started == hour >= s["quiet_start_hour"]
      unended == hour < s["quiet_end_hour"]
  IN IF s["quiet_start_hour"] > s["quiet_end_hour"] THEN started \/ unended
                                                    ELSE started /\ unended

\* How long quiet_hours_retry_after puts a campaign off.
UntilQuietEnds(second, s) == (s["quiet_end_hour"] * 3600 - second) % 86400
SecondAfter(second, wait) == (second + wait) % 86400
=============================================================================
