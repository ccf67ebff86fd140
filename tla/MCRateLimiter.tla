---------------------------- MODULE MCRateLimiter ----------------------------
(* A small instance of RateLimiter for TLC.                                *)
EXTENDS RateLimiter

(* A login bucket blocks at the second failure; an IP bucket is shared by  *)
(* sign-up, which blocks it at the second request, and phone, at the 20th. *)
MCEnv == [loginFailureLimit |-> 2, loginAbuseLimit |-> 3, loginWindow |-> 2, loginLock |-> 2,
          otpRequestLimitPerHour |-> 2, otpIpLimitPerHour |-> 2, otpDeviceLimitPerHour |-> 3,
          recoveryEmailLimit |-> 2, recoveryEmailWindow |-> 2, recoveryIpLimit |-> 3,
          recoveryIpWindow |-> 4, recoveryDeviceLimit |-> 3]
=============================================================================
