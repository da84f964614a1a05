SPECIFICATION ChatFairSpec
CONSTANTS
    Backoff <- MCBackoff
    MaxRateLimitAttempts = 4
    MaxRetryAfter = 240
    RetryAfterBuffer = 3
    Hints <- MCHints
INVARIANTS
    QuietAfterCancel
PROPERTIES
    NoResend
    CallReturns
