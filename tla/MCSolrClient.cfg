CONSTANT
    Exchanges <- MCExchanges
SPECIFICATION ClientSpec
INVARIANTS
    SuccessExact
    RetryExact
    LabelsAgree
