SPECIFICATION Spec
CONSTANTS
    Offers <- MCOffers
    PayloadTypes <- MCPayloadTypes
    Transceivers <- MCTransceivers
    MaxViewers = 3
INVARIANTS
    TypeOK
    NegotiatedIsBest
    AnswerMirrorsOffer
CHECK_DEADLOCK FALSE
